---------------------------- MODULE Spec2Model ----------------------------
(***************************************************************************)
(* The lexer of tree-sitter-applescript (src/src/parser.c): the state      *)
(* graph of ts_lex, one definition per case of its switch, run one loop    *)
(* iteration at a time over an input of code points, and the loop that     *)
(* scans an input token by token from offset 0.                            *)
(***************************************************************************)
EXTENDS Integers, Sequences, FiniteSets, TLC

VARIABLES
    input,          \* the source text, a sequence of code points
    pc,             \* "Scanning", "Lexing", "Returned" or "Done"
    position,       \* offset of the lexer's lookahead character
    state,          \* ts_lex's local variable state
    result,         \* ts_lex's local variable result
    result_symbol,  \* lexer->result_symbol
    scan_start,     \* offset at which the current call of ts_lex started
    token_start,    \* offset of the token's first character (after skips)
    token_end,      \* offset set by the last lexer->mark_end
    tokens,         \* the item sequence emitted so far
    error,          \* <<>>, or <<offset>> once a scan has failed
    parse_stack     \* the parser's stack: states with the subtrees below them

vars == <<input, pc, position, state, result, result_symbol, scan_start,
          token_start, token_end, tokens, error, parse_stack>>

(***************************************************************************)
(* Symbols (enum ts_symbol_identifiers).                                   *)
(***************************************************************************)
ts_builtin_sym_end == 0
sym_comment == 1
sym_string == 2
sym_number == 3
sym_keyword == 4
sym_operator == 5
sym_punctuation == 6
sym_identifier == 7

(***************************************************************************)
(* The lexer macros of tree_sitter/parser.h as values: what one iteration  *)
(* of ts_lex's loop decides.  accepts/symbol record ACCEPT_TOKEN, op and   *)
(* to record ADVANCE, SKIP or END_STATE.                                   *)
(***************************************************************************)
END_STATE ==
    [accepts |-> FALSE, symbol |-> ts_builtin_sym_end, op |-> "END_STATE", to |-> 0]

ADVANCE(state_value) ==
    [accepts |-> FALSE, symbol |-> ts_builtin_sym_end, op |-> "ADVANCE", to |-> state_value]

SKIP(state_value) ==
    [accepts |-> FALSE, symbol |-> ts_builtin_sym_end, op |-> "SKIP", to |-> state_value]

ACCEPT_TOKEN(symbol_value, rest) ==
    [rest EXCEPT !.accepts = TRUE, !.symbol = symbol_value]

(***************************************************************************)
(* ts_lex: the cases of the switch, in the order of the source.            *)
(***************************************************************************)
ts_lex_0_ADVANCE_MAP(lookahead) ==
    IF lookahead = 34 THEN ADVANCE(2) ELSE
    IF lookahead = 35 THEN ADVANCE(1) ELSE
    IF lookahead = 40 THEN ADVANCE(18) ELSE
    IF lookahead = 45 THEN ADVANCE(15) ELSE
    IF lookahead = 47 THEN ADVANCE(16) ELSE
    IF lookahead = 60 THEN ADVANCE(16) ELSE
    IF lookahead = 62 THEN ADVANCE(16) ELSE
    IF lookahead = 65 THEN ADVANCE(32) ELSE
    IF lookahead = 97 THEN ADVANCE(32) ELSE
    IF lookahead = 66 THEN ADVANCE(126) ELSE
    IF lookahead = 98 THEN ADVANCE(126) ELSE
    IF lookahead = 67 THEN ADVANCE(19) ELSE
    IF lookahead = 99 THEN ADVANCE(19) ELSE
    IF lookahead = 68 THEN ADVANCE(51) ELSE
    IF lookahead = 100 THEN ADVANCE(51) ELSE
    IF lookahead = 69 THEN ADVANCE(65) ELSE
    IF lookahead = 101 THEN ADVANCE(65) ELSE
    IF lookahead = 70 THEN ADVANCE(21) ELSE
    IF lookahead = 102 THEN ADVANCE(21) ELSE
    IF lookahead = 71 THEN ADVANCE(69) ELSE
    IF lookahead = 103 THEN ADVANCE(69) ELSE
    IF lookahead = 73 THEN ADVANCE(48) ELSE
    IF lookahead = 105 THEN ADVANCE(48) ELSE
    IF lookahead = 76 THEN ADVANCE(82) ELSE
    IF lookahead = 108 THEN ADVANCE(82) ELSE
    IF lookahead = 77 THEN ADVANCE(36) ELSE
    IF lookahead = 109 THEN ADVANCE(36) ELSE
    IF lookahead = 78 THEN ADVANCE(83) ELSE
    IF lookahead = 110 THEN ADVANCE(83) ELSE
    IF lookahead = 79 THEN ADVANCE(127) ELSE
    IF lookahead = 111 THEN ADVANCE(127) ELSE
    IF lookahead = 80 THEN ADVANCE(99) ELSE
    IF lookahead = 112 THEN ADVANCE(99) ELSE
    IF lookahead = 82 THEN ADVANCE(38) ELSE
    IF lookahead = 114 THEN ADVANCE(38) ELSE
    IF lookahead = 83 THEN ADVANCE(29) ELSE
    IF lookahead = 115 THEN ADVANCE(29) ELSE
    IF lookahead = 84 THEN ADVANCE(40) ELSE
    IF lookahead = 116 THEN ADVANCE(40) ELSE
    IF lookahead = 85 THEN ADVANCE(79) ELSE
    IF lookahead = 117 THEN ADVANCE(79) ELSE
    IF lookahead = 86 THEN ADVANCE(22) ELSE
    IF lookahead = 118 THEN ADVANCE(22) ELSE
    IF lookahead = 87 THEN ADVANCE(50) ELSE
    IF lookahead = 119 THEN ADVANCE(50) ELSE
    END_STATE

\* Faulty variant of case 0: the end of the input is recognised by lookahead 0
\* instead of eof, so a NUL in the text ends the scanning.
ts_lex_0_nul_as_eof(lookahead, eof) ==
    IF eof \/ lookahead = 0 THEN ADVANCE(6) ELSE
    IF ts_lex_0_ADVANCE_MAP(lookahead).op = "ADVANCE" THEN ts_lex_0_ADVANCE_MAP(lookahead) ELSE
    IF (9 <= lookahead /\ lookahead <= 13) \/ lookahead = 32 THEN SKIP(0) ELSE
    IF (39 <= lookahead /\ lookahead <= 41) \/ lookahead = 44 \/ lookahead = 58 \/ lookahead = 91 \/ lookahead = 93 \/ lookahead = 123 \/ lookahead = 125 THEN ADVANCE(17) ELSE
    IF (38 <= lookahead /\ lookahead <= 43) \/ lookahead = 61 \/ lookahead = 94 \/ lookahead = 172 \/ lookahead = 8800 \/ lookahead = 8804 \/ lookahead = 8805 THEN ADVANCE(14) ELSE
    IF (48 <= lookahead /\ lookahead <= 57) THEN ADVANCE(10) ELSE
    IF (72 <= lookahead /\ lookahead <= 90) \/ lookahead = 95 \/ (104 <= lookahead /\ lookahead <= 122) THEN ADVANCE(128) ELSE
    END_STATE

\* Faulty variant of case 0: only the space is skipped.
ts_lex_0_space_only(lookahead, eof) ==
    IF eof THEN ADVANCE(6) ELSE
    IF ts_lex_0_ADVANCE_MAP(lookahead).op = "ADVANCE" THEN ts_lex_0_ADVANCE_MAP(lookahead) ELSE
    IF lookahead = 32 THEN SKIP(0) ELSE
    IF (39 <= lookahead /\ lookahead <= 41) \/ lookahead = 44 \/ lookahead = 58 \/ lookahead = 91 \/ lookahead = 93 \/ lookahead = 123 \/ lookahead = 125 THEN ADVANCE(17) ELSE
    IF (38 <= lookahead /\ lookahead <= 43) \/ lookahead = 61 \/ lookahead = 94 \/ lookahead = 172 \/ lookahead = 8800 \/ lookahead = 8804 \/ lookahead = 8805 THEN ADVANCE(14) ELSE
    IF (48 <= lookahead /\ lookahead <= 57) THEN ADVANCE(10) ELSE
    IF (72 <= lookahead /\ lookahead <= 90) \/ lookahead = 95 \/ (104 <= lookahead /\ lookahead <= 122) THEN ADVANCE(128) ELSE
    END_STATE

\* Faulty variant of case 0: the dot is one of the punctuation characters.
ts_lex_0_dot_punctuation(lookahead, eof) ==
    IF eof THEN ADVANCE(6) ELSE
    IF ts_lex_0_ADVANCE_MAP(lookahead).op = "ADVANCE" THEN ts_lex_0_ADVANCE_MAP(lookahead) ELSE
    IF (9 <= lookahead /\ lookahead <= 13) \/ lookahead = 32 THEN SKIP(0) ELSE
    IF (39 <= lookahead /\ lookahead <= 41) \/ lookahead = 44 \/ lookahead = 46 \/ lookahead = 58 \/ lookahead = 91 \/ lookahead = 93 \/ lookahead = 123 \/ lookahead = 125 THEN ADVANCE(17) ELSE
    IF (38 <= lookahead /\ lookahead <= 43) \/ lookahead = 61 \/ lookahead = 94 \/ lookahead = 172 \/ lookahead = 8800 \/ lookahead = 8804 \/ lookahead = 8805 THEN ADVANCE(14) ELSE
    IF (48 <= lookahead /\ lookahead <= 57) THEN ADVANCE(10) ELSE
    IF (72 <= lookahead /\ lookahead <= 90) \/ lookahead = 95 \/ (104 <= lookahead /\ lookahead <= 122) THEN ADVANCE(128) ELSE
    END_STATE

\* Faulty variant of case 0: the range of operator characters starts at the
\* exclamation mark.
ts_lex_0_wide_operators(lookahead, eof) ==
    IF eof THEN ADVANCE(6) ELSE
    IF ts_lex_0_ADVANCE_MAP(lookahead).op = "ADVANCE" THEN ts_lex_0_ADVANCE_MAP(lookahead) ELSE
    IF (9 <= lookahead /\ lookahead <= 13) \/ lookahead = 32 THEN SKIP(0) ELSE
    IF (39 <= lookahead /\ lookahead <= 41) \/ lookahead = 44 \/ lookahead = 58 \/ lookahead = 91 \/ lookahead = 93 \/ lookahead = 123 \/ lookahead = 125 THEN ADVANCE(17) ELSE
    IF (33 <= lookahead /\ lookahead <= 43) \/ lookahead = 61 \/ lookahead = 94 \/ lookahead = 172 \/ lookahead = 8800 \/ lookahead = 8804 \/ lookahead = 8805 THEN ADVANCE(14) ELSE
    IF (48 <= lookahead /\ lookahead <= 57) THEN ADVANCE(10) ELSE
    IF (72 <= lookahead /\ lookahead <= 90) \/ lookahead = 95 \/ (104 <= lookahead /\ lookahead <= 122) THEN ADVANCE(128) ELSE
    END_STATE

ts_lex_0(lookahead, eof) ==
    IF eof THEN ADVANCE(6) ELSE
    IF ts_lex_0_ADVANCE_MAP(lookahead).op = "ADVANCE" THEN ts_lex_0_ADVANCE_MAP(lookahead) ELSE
    IF (9 <= lookahead /\ lookahead <= 13) \/ lookahead = 32 THEN SKIP(0) ELSE
    IF (39 <= lookahead /\ lookahead <= 41) \/ lookahead = 44 \/ lookahead = 58 \/ lookahead = 91 \/ lookahead = 93 \/ lookahead = 123 \/ lookahead = 125 THEN ADVANCE(17) ELSE
    IF (38 <= lookahead /\ lookahead <= 43) \/ lookahead = 61 \/ lookahead = 94 \/ lookahead = 172 \/ lookahead = 8800 \/ lookahead = 8804 \/ lookahead = 8805 THEN ADVANCE(14) ELSE
    IF (48 <= lookahead /\ lookahead <= 57) THEN ADVANCE(10) ELSE
    IF (72 <= lookahead /\ lookahead <= 90) \/ lookahead = 95 \/ (104 <= lookahead /\ lookahead <= 122) THEN ADVANCE(128) ELSE
    END_STATE

\* Faulty variant of case 1: a hash is a comment by itself.
ts_lex_1_hash_comment(lookahead, eof) ==
    ACCEPT_TOKEN(sym_comment,
        IF lookahead = 33 THEN ADVANCE(8) ELSE
        END_STATE)

ts_lex_1(lookahead, eof) ==
    IF lookahead = 33 THEN ADVANCE(8) ELSE
    END_STATE

\* Faulty variant of case 2: an open string is accepted as it stands.
ts_lex_2_accepts_open_string(lookahead, eof) ==
    ACCEPT_TOKEN(sym_string,
        IF lookahead = 34 THEN ADVANCE(9) ELSE
        IF lookahead # 0 THEN ADVANCE(2) ELSE
        END_STATE)

\* Faulty variant of case 2: a newline ends the string body.
ts_lex_2_single_line(lookahead, eof) ==
    IF lookahead = 34 THEN ADVANCE(9) ELSE
    IF lookahead # 0 /\ lookahead # 10 THEN ADVANCE(2) ELSE
    END_STATE

\* Faulty variant of case 2: the body of a string goes on over lookahead 0.
ts_lex_2_reads_past_end(lookahead, eof) ==
    IF lookahead = 34 THEN ADVANCE(9) ELSE
    ADVANCE(2)

ts_lex_2(lookahead, eof) ==
    IF lookahead = 34 THEN ADVANCE(9) ELSE
    IF lookahead # 0 THEN ADVANCE(2) ELSE
    END_STATE

ts_lex_3(lookahead, eof) ==
    IF lookahead = 41 THEN ADVANCE(7) ELSE
    IF lookahead = 42 THEN ADVANCE(3) ELSE
    IF lookahead # 0 THEN ADVANCE(4) ELSE
    END_STATE

\* Faulty variant of case 4: a NUL that is not the end of the text is part of
\* the comment.
ts_lex_4_reads_nul(lookahead, eof) ==
    IF lookahead = 42 THEN ADVANCE(3) ELSE
    IF lookahead # 0 \/ ~eof THEN ADVANCE(4) ELSE
    END_STATE

ts_lex_4(lookahead, eof) ==
    IF lookahead = 42 THEN ADVANCE(3) ELSE
    IF lookahead # 0 THEN ADVANCE(4) ELSE
    END_STATE

\* Faulty variant of case 5: digits and a dot are accepted as a number.
ts_lex_5_accepts_dot(lookahead, eof) ==
    ACCEPT_TOKEN(sym_number,
        IF (48 <= lookahead /\ lookahead <= 57) THEN ADVANCE(11) ELSE
        END_STATE)

ts_lex_5(lookahead, eof) ==
    IF (48 <= lookahead /\ lookahead <= 57) THEN ADVANCE(11) ELSE
    END_STATE

\* Faulty variant of case 6: the end of the input is accepted as a comment.
ts_lex_6_as_comment(lookahead, eof) ==
    ACCEPT_TOKEN(sym_comment,
        END_STATE)

ts_lex_6(lookahead, eof) ==
    ACCEPT_TOKEN(ts_builtin_sym_end,
        END_STATE)

\* Faulty variant of case 7: the search for the closer goes on after a closer.
ts_lex_7_greedy(lookahead, eof) ==
    ACCEPT_TOKEN(sym_comment,
        IF lookahead = 42 THEN ADVANCE(3) ELSE
        IF lookahead # 0 THEN ADVANCE(4) ELSE
        END_STATE)

ts_lex_7(lookahead, eof) ==
    ACCEPT_TOKEN(sym_comment,
        END_STATE)

\* Faulty variant of case 8: a carriage return ends the comment too.
ts_lex_8_stops_at_return(lookahead, eof) ==
    ACCEPT_TOKEN(sym_comment,
        IF lookahead # 0 /\ lookahead # 10 /\ lookahead # 13 THEN ADVANCE(8) ELSE
        END_STATE)

ts_lex_8(lookahead, eof) ==
    ACCEPT_TOKEN(sym_comment,
        IF lookahead # 0 /\ lookahead # 10 THEN ADVANCE(8) ELSE
        END_STATE)

ts_lex_9(lookahead, eof) ==
    ACCEPT_TOKEN(sym_string,
        END_STATE)

ts_lex_10(lookahead, eof) ==
    ACCEPT_TOKEN(sym_number,
        IF lookahead = 46 THEN ADVANCE(5) ELSE
        IF (48 <= lookahead /\ lookahead <= 57) THEN ADVANCE(10) ELSE
        END_STATE)

ts_lex_11(lookahead, eof) ==
    ACCEPT_TOKEN(sym_number,
        IF (48 <= lookahead /\ lookahead <= 57) THEN ADVANCE(11) ELSE
        END_STATE)

ts_lex_12(lookahead, eof) ==
    ACCEPT_TOKEN(sym_keyword,
        IF lookahead = 73 \/ lookahead = 105 THEN ADVANCE(78) ELSE
        IF (48 <= lookahead /\ lookahead <= 57) \/ (65 <= lookahead /\ lookahead <= 90) \/ lookahead = 95 \/ (97 <= lookahead /\ lookahead <= 122) THEN ADVANCE(128) ELSE
        END_STATE)

\* Faulty variant of case 13: a keyword followed by a digit stays a keyword.
ts_lex_13_digits(lookahead, eof) ==
    ACCEPT_TOKEN(sym_keyword,
        IF (48 <= lookahead /\ lookahead <= 57) THEN ADVANCE(13) ELSE
        IF (65 <= lookahead /\ lookahead <= 90) \/
           lookahead = 95 \/
           (97 <= lookahead /\ lookahead <= 122) THEN ADVANCE(128) ELSE
        END_STATE)

ts_lex_13(lookahead, eof) ==
    ACCEPT_TOKEN(sym_keyword,
        IF (48 <= lookahead /\ lookahead <= 57) \/ (65 <= lookahead /\ lookahead <= 90) \/ lookahead = 95 \/ (97 <= lookahead /\ lookahead <= 122) THEN ADVANCE(128) ELSE
        END_STATE)

\* Faulty variant of case 14: an equals sign extends every operator.
ts_lex_14_assignment(lookahead, eof) ==
    ACCEPT_TOKEN(sym_operator,
        IF lookahead = 61 THEN ADVANCE(14) ELSE
        END_STATE)

ts_lex_14(lookahead, eof) ==
    ACCEPT_TOKEN(sym_operator,
        END_STATE)

\* Faulty variant of case 15: a second minus sign does not start a line comment.
ts_lex_15_no_line_comment(lookahead, eof) ==
    ACCEPT_TOKEN(sym_operator,
        END_STATE)

ts_lex_15(lookahead, eof) ==
    ACCEPT_TOKEN(sym_operator,
        IF lookahead = 45 THEN ADVANCE(8) ELSE
        END_STATE)

\* Faulty variant of case 16: the equals sign is not joined to the operator.
ts_lex_16_single(lookahead, eof) ==
    ACCEPT_TOKEN(sym_operator,
        END_STATE)

\* Faulty variant of case 16: spaces may stand in front of the equals sign.
ts_lex_16_spaced(lookahead, eof) ==
    ACCEPT_TOKEN(sym_operator,
        IF lookahead = 61 THEN ADVANCE(14) ELSE
        IF lookahead = 32 THEN ADVANCE(16) ELSE
        END_STATE)

ts_lex_16(lookahead, eof) ==
    ACCEPT_TOKEN(sym_operator,
        IF lookahead = 61 THEN ADVANCE(14) ELSE
        END_STATE)

\* Faulty variant of case 17: a run of close parentheses is one token.
ts_lex_17_run(lookahead, eof) ==
    ACCEPT_TOKEN(sym_punctuation,
        IF lookahead = 41 THEN ADVANCE(17) ELSE
        END_STATE)

ts_lex_17(lookahead, eof) ==
    ACCEPT_TOKEN(sym_punctuation,
        END_STATE)

\* Faulty variant of case 18: the open parenthesis before a star is not accepted.
ts_lex_18_opener_only(lookahead, eof) ==
    IF lookahead = 42 THEN ADVANCE(4) ELSE
    ACCEPT_TOKEN(sym_punctuation,
        END_STATE)

\* Faulty variant of case 18: the star of the opener may be the star of the
\* closer.
ts_lex_18_shared_star(lookahead, eof) ==
    ACCEPT_TOKEN(sym_punctuation,
        IF lookahead = 42 THEN ADVANCE(3) ELSE
        END_STATE)

ts_lex_18(lookahead, eof) ==
    ACCEPT_TOKEN(sym_punctuation,
        IF lookahead = 42 THEN ADVANCE(4) ELSE
        END_STATE)

ts_lex_19(lookahead, eof) ==
    ACCEPT_TOKEN(sym_identifier,
        IF lookahead = 65 \/ lookahead = 97 THEN ADVANCE(108) ELSE
        IF lookahead = 79 \/ lookahead = 111 THEN ADVANCE(77) ELSE
        IF (48 <= lookahead /\ lookahead <= 57) \/ (66 <= lookahead /\ lookahead <= 90) \/ lookahead = 95 \/ (98 <= lookahead /\ lookahead <= 122) THEN ADVANCE(128) ELSE
        END_STATE)

ts_lex_20(lookahead, eof) ==
    ACCEPT_TOKEN(sym_identifier,
        IF lookahead = 65 \/ lookahead = 97 THEN ADVANCE(114) ELSE
        IF (48 <= lookahead /\ lookahead <= 57) \/ (66 <= lookahead /\ lookahead <= 90) \/ lookahead = 95 \/ (98 <= lookahead /\ lookahead <= 122) THEN ADVANCE(128) ELSE
        END_STATE)

ts_lex_21(lookahead, eof) ==
    ACCEPT_TOKEN(sym_identifier,
        IF lookahead = 65 \/ lookahead = 97 THEN ADVANCE(66) ELSE
        IF lookahead = 82 \/ lookahead = 114 THEN ADVANCE(25) ELSE
        IF (48 <= lookahead /\ lookahead <= 57) \/ (66 <= lookahead /\ lookahead <= 90) \/ lookahead = 95 \/ (98 <= lookahead /\ lookahead <= 122) THEN ADVANCE(128) ELSE
        END_STATE)

ts_lex_22(lookahead, eof) ==
    ACCEPT_TOKEN(sym_identifier,
        IF lookahead = 65 \/ lookahead = 97 THEN ADVANCE(71) ELSE
        IF lookahead = 69 \/ lookahead = 101 THEN ADVANCE(105) ELSE
        IF (48 <= lookahead /\ lookahead <= 57) \/ (66 <= lookahead /\ lookahead <= 90) \/ lookahead = 95 \/ (98 <= lookahead /\ lookahead <= 122) THEN ADVANCE(128) ELSE
        END_STATE)

ts_lex_23(lookahead, eof) ==
    ACCEPT_TOKEN(sym_identifier,
        IF lookahead = 65 \/ lookahead = 97 THEN ADVANCE(64) ELSE
        IF (48 <= lookahead /\ lookahead <= 57) \/ (66 <= lookahead /\ lookahead <= 90) \/ lookahead = 95 \/ (98 <= lookahead /\ lookahead <= 122) THEN ADVANCE(128) ELSE
        END_STATE)

ts_lex_24(lookahead, eof) ==
    ACCEPT_TOKEN(sym_identifier,
        IF lookahead = 65 \/ lookahead = 97 THEN ADVANCE(57) ELSE
        IF (48 <= lookahead /\ lookahead <= 57) \/ (66 <= lookahead /\ lookahead <= 90) \/ lookahead = 95 \/ (98 <= lookahead /\ lookahead <= 122) THEN ADVANCE(128) ELSE
        END_STATE)

ts_lex_25(lookahead, eof) ==
    ACCEPT_TOKEN(sym_identifier,
        IF lookahead = 65 \/ lookahead = 97 THEN ADVANCE(75) ELSE
        IF lookahead = 79 \/ lookahead = 111 THEN ADVANCE(73) ELSE
        IF (48 <= lookahead /\ lookahead <= 57) \/ (66 <= lookahead /\ lookahead <= 90) \/ lookahead = 95 \/ (98 <= lookahead /\ lookahead <= 122) THEN ADVANCE(128) ELSE
        END_STATE)

ts_lex_26(lookahead, eof) ==
    ACCEPT_TOKEN(sym_identifier,
        IF lookahead = 65 \/ lookahead = 97 THEN ADVANCE(117) ELSE
        IF (48 <= lookahead /\ lookahead <= 57) \/ (66 <= lookahead /\ lookahead <= 90) \/ lookahead = 95 \/ (98 <= lookahead /\ lookahead <= 122) THEN ADVANCE(128) ELSE
        END_STATE)

ts_lex_27(lookahead, eof) ==
    ACCEPT_TOKEN(sym_identifier,
        IF lookahead = 66 \/ lookahead = 98 THEN ADVANCE(23) ELSE
        IF (48 <= lookahead /\ lookahead <= 57) \/ (65 <= lookahead /\ lookahead <= 90) \/ lookahead = 95 \/ (97 <= lookahead /\ lookahead <= 122) THEN ADVANCE(128) ELSE
        END_STATE)

ts_lex_28(lookahead, eof) ==
    ACCEPT_TOKEN(sym_identifier,
        IF lookahead = 67 \/ lookahead = 99 THEN ADVANCE(23) ELSE
        IF (48 <= lookahead /\ lookahead <= 57) \/ (65 <= lookahead /\ lookahead <= 90) \/ lookahead = 95 \/ (97 <= lookahead /\ lookahead <= 122) THEN ADVANCE(128) ELSE
        END_STATE)

ts_lex_29(lookahead, eof) ==
    ACCEPT_TOKEN(sym_identifier,
        IF lookahead = 67 \/ lookahead = 99 THEN ADVANCE(100) ELSE
        IF lookahead = 69 \/ lookahead = 101 THEN ADVANCE(114) ELSE
        IF (48 <= lookahead /\ lookahead <= 57) \/ (65 <= lookahead /\ lookahead <= 90) \/ lookahead = 95 \/ (97 <= lookahead /\ lookahead <= 122) THEN ADVANCE(128) ELSE
        END_STATE)

ts_lex_30(lookahead, eof) ==
    ACCEPT_TOKEN(sym_identifier,
        IF lookahead = 67 \/ lookahead = 99 THEN ADVANCE(26) ELSE
        IF (48 <= lookahead /\ lookahead <= 57) \/ (65 <= lookahead /\ lookahead <= 90) \/ lookahead = 95 \/ (97 <= lookahead /\ lookahead <= 122) THEN ADVANCE(128) ELSE
        END_STATE)

ts_lex_31(lookahead, eof) ==
    ACCEPT_TOKEN(sym_identifier,
        IF lookahead = 67 \/ lookahead = 99 THEN ADVANCE(104) ELSE
        IF (48 <= lookahead /\ lookahead <= 57) \/ (65 <= lookahead /\ lookahead <= 90) \/ lookahead = 95 \/ (97 <= lookahead /\ lookahead <= 122) THEN ADVANCE(128) ELSE
        END_STATE)

ts_lex_32(lookahead, eof) ==
    ACCEPT_TOKEN(sym_identifier,
        IF lookahead = 68 \/ lookahead = 100 THEN ADVANCE(34) ELSE
        IF lookahead = 78 \/ lookahead = 110 THEN ADVANCE(33) ELSE
        IF lookahead = 80 \/ lookahead = 112 THEN ADVANCE(94) ELSE
        IF (48 <= lookahead /\ lookahead <= 57) \/ (65 <= lookahead /\ lookahead <= 90) \/ lookahead = 95 \/ (97 <= lookahead /\ lookahead <= 122) THEN ADVANCE(128) ELSE
        END_STATE)

ts_lex_33(lookahead, eof) ==
    ACCEPT_TOKEN(sym_identifier,
        IF lookahead = 68 \/ lookahead = 100 THEN ADVANCE(13) ELSE
        IF (48 <= lookahead /\ lookahead <= 57) \/ (65 <= lookahead /\ lookahead <= 90) \/ lookahead = 95 \/ (97 <= lookahead /\ lookahead <= 122) THEN ADVANCE(128) ELSE
        END_STATE)

ts_lex_34(lookahead, eof) ==
    ACCEPT_TOKEN(sym_identifier,
        IF lookahead = 68 \/ lookahead = 100 THEN ADVANCE(62) ELSE
        IF (48 <= lookahead /\ lookahead <= 57) \/ (65 <= lookahead /\ lookahead <= 90) \/ lookahead = 95 \/ (97 <= lookahead /\ lookahead <= 122) THEN ADVANCE(128) ELSE
        END_STATE)

ts_lex_35(lookahead, eof) ==
    ACCEPT_TOKEN(sym_identifier,
        IF lookahead = 68 \/ lookahead = 100 THEN ADVANCE(46) ELSE
        IF (48 <= lookahead /\ lookahead <= 57) \/ (65 <= lookahead /\ lookahead <= 90) \/ lookahead = 95 \/ (97 <= lookahead /\ lookahead <= 122) THEN ADVANCE(128) ELSE
        END_STATE)

ts_lex_36(lookahead, eof) ==
    ACCEPT_TOKEN(sym_identifier,
        IF lookahead = 69 \/ lookahead = 101 THEN ADVANCE(13) ELSE
        IF lookahead = 73 \/ lookahead = 105 THEN ADVANCE(109) ELSE
        IF lookahead = 79 \/ lookahead = 111 THEN ADVANCE(33) ELSE
        IF (48 <= lookahead /\ lookahead <= 57) \/ (65 <= lookahead /\ lookahead <= 90) \/ lookahead = 95 \/ (97 <= lookahead /\ lookahead <= 122) THEN ADVANCE(128) ELSE
        END_STATE)

ts_lex_37(lookahead, eof) ==
    ACCEPT_TOKEN(sym_identifier,
        IF lookahead = 69 \/ lookahead = 101 THEN ADVANCE(13) ELSE
        IF (48 <= lookahead /\ lookahead <= 57) \/ (65 <= lookahead /\ lookahead <= 90) \/ lookahead = 95 \/ (97 <= lookahead /\ lookahead <= 122) THEN ADVANCE(128) ELSE
        END_STATE)

ts_lex_38(lookahead, eof) ==
    ACCEPT_TOKEN(sym_identifier,
        IF lookahead = 69 \/ lookahead = 101 THEN ADVANCE(92) ELSE
        IF (48 <= lookahead /\ lookahead <= 57) \/ (65 <= lookahead /\ lookahead <= 90) \/ lookahead = 95 \/ (97 <= lookahead /\ lookahead <= 122) THEN ADVANCE(128) ELSE
        END_STATE)

ts_lex_39(lookahead, eof) ==
    ACCEPT_TOKEN(sym_identifier,
        IF lookahead = 69 \/ lookahead = 101 THEN ADVANCE(125) ELSE
        IF (48 <= lookahead /\ lookahead <= 57) \/ (65 <= lookahead /\ lookahead <= 90) \/ lookahead = 95 \/ (97 <= lookahead /\ lookahead <= 122) THEN ADVANCE(128) ELSE
        END_STATE)

ts_lex_40_ADVANCE_MAP(lookahead) ==
    IF lookahead = 69 THEN ADVANCE(72) ELSE
    IF lookahead = 101 THEN ADVANCE(72) ELSE
    IF lookahead = 72 THEN ADVANCE(41) ELSE
    IF lookahead = 104 THEN ADVANCE(41) ELSE
    IF lookahead = 73 THEN ADVANCE(74) ELSE
    IF lookahead = 105 THEN ADVANCE(74) ELSE
    IF lookahead = 79 THEN ADVANCE(13) ELSE
    IF lookahead = 111 THEN ADVANCE(13) ELSE
    IF lookahead = 82 THEN ADVANCE(120) ELSE
    IF lookahead = 114 THEN ADVANCE(120) ELSE
    END_STATE

ts_lex_40(lookahead, eof) ==
    ACCEPT_TOKEN(sym_identifier,
        IF ts_lex_40_ADVANCE_MAP(lookahead).op = "ADVANCE" THEN ts_lex_40_ADVANCE_MAP(lookahead) ELSE
        IF (48 <= lookahead /\ lookahead <= 57) \/ (65 <= lookahead /\ lookahead <= 90) \/ lookahead = 95 \/ (97 <= lookahead /\ lookahead <= 122) THEN ADVANCE(128) ELSE
        END_STATE)

ts_lex_41(lookahead, eof) ==
    ACCEPT_TOKEN(sym_identifier,
        IF lookahead = 69 \/ lookahead = 101 THEN ADVANCE(76) ELSE
        IF (48 <= lookahead /\ lookahead <= 57) \/ (65 <= lookahead /\ lookahead <= 90) \/ lookahead = 95 \/ (97 <= lookahead /\ lookahead <= 122) THEN ADVANCE(128) ELSE
        END_STATE)

ts_lex_42(lookahead, eof) ==
    ACCEPT_TOKEN(sym_identifier,
        IF lookahead = 69 \/ lookahead = 101 THEN ADVANCE(20) ELSE
        IF (48 <= lookahead /\ lookahead <= 57) \/ (65 <= lookahead /\ lookahead <= 90) \/ lookahead = 95 \/ (97 <= lookahead /\ lookahead <= 122) THEN ADVANCE(128) ELSE
        END_STATE)

ts_lex_43(lookahead, eof) ==
    ACCEPT_TOKEN(sym_identifier,
        IF lookahead = 69 \/ lookahead = 101 THEN ADVANCE(106) ELSE
        IF (48 <= lookahead /\ lookahead <= 57) \/ (65 <= lookahead /\ lookahead <= 90) \/ lookahead = 95 \/ (97 <= lookahead /\ lookahead <= 122) THEN ADVANCE(128) ELSE
        END_STATE)

ts_lex_44(lookahead, eof) ==
    ACCEPT_TOKEN(sym_identifier,
        IF lookahead = 69 \/ lookahead = 101 THEN ADVANCE(107) ELSE
        IF lookahead = 73 \/ lookahead = 105 THEN ADVANCE(30) ELSE
        IF (48 <= lookahead /\ lookahead <= 57) \/ (65 <= lookahead /\ lookahead <= 90) \/ lookahead = 95 \/ (97 <= lookahead /\ lookahead <= 122) THEN ADVANCE(128) ELSE
        END_STATE)

ts_lex_45(lookahead, eof) ==
    ACCEPT_TOKEN(sym_identifier,
        IF lookahead = 69 \/ lookahead = 101 THEN ADVANCE(102) ELSE
        IF (48 <= lookahead /\ lookahead <= 57) \/ (65 <= lookahead /\ lookahead <= 90) \/ lookahead = 95 \/ (97 <= lookahead /\ lookahead <= 122) THEN ADVANCE(128) ELSE
        END_STATE)

ts_lex_46(lookahead, eof) ==
    ACCEPT_TOKEN(sym_identifier,
        IF lookahead = 69 \/ lookahead = 101 THEN ADVANCE(103) ELSE
        IF (48 <= lookahead /\ lookahead <= 57) \/ (65 <= lookahead /\ lookahead <= 90) \/ lookahead = 95 \/ (97 <= lookahead /\ lookahead <= 122) THEN ADVANCE(128) ELSE
        END_STATE)

ts_lex_47(lookahead, eof) ==
    ACCEPT_TOKEN(sym_identifier,
        IF lookahead = 71 \/ lookahead = 103 THEN ADVANCE(13) ELSE
        IF (48 <= lookahead /\ lookahead <= 57) \/ (65 <= lookahead /\ lookahead <= 90) \/ lookahead = 95 \/ (97 <= lookahead /\ lookahead <= 122) THEN ADVANCE(128) ELSE
        END_STATE)

ts_lex_48_ADVANCE_MAP(lookahead) ==
    IF lookahead = 71 THEN ADVANCE(81) ELSE
    IF lookahead = 103 THEN ADVANCE(81) ELSE
    IF lookahead = 70 THEN ADVANCE(13) ELSE
    IF lookahead = 78 THEN ADVANCE(13) ELSE
    IF lookahead = 83 THEN ADVANCE(13) ELSE
    IF lookahead = 84 THEN ADVANCE(13) ELSE
    IF lookahead = 102 THEN ADVANCE(13) ELSE
    IF lookahead = 110 THEN ADVANCE(13) ELSE
    IF lookahead = 115 THEN ADVANCE(13) ELSE
    IF lookahead = 116 THEN ADVANCE(13) ELSE
    END_STATE

ts_lex_48(lookahead, eof) ==
    ACCEPT_TOKEN(sym_identifier,
        IF ts_lex_48_ADVANCE_MAP(lookahead).op = "ADVANCE" THEN ts_lex_48_ADVANCE_MAP(lookahead) ELSE
        IF (48 <= lookahead /\ lookahead <= 57) \/ (65 <= lookahead /\ lookahead <= 90) \/ lookahead = 95 \/ (97 <= lookahead /\ lookahead <= 122) THEN ADVANCE(128) ELSE
        END_STATE)

ts_lex_49(lookahead, eof) ==
    ACCEPT_TOKEN(sym_identifier,
        IF lookahead = 72 \/ lookahead = 104 THEN ADVANCE(13) ELSE
        IF (48 <= lookahead /\ lookahead <= 57) \/ (65 <= lookahead /\ lookahead <= 90) \/ lookahead = 95 \/ (97 <= lookahead /\ lookahead <= 122) THEN ADVANCE(128) ELSE
        END_STATE)

ts_lex_50(lookahead, eof) ==
    ACCEPT_TOKEN(sym_identifier,
        IF lookahead = 72 \/ lookahead = 104 THEN ADVANCE(59) ELSE
        IF lookahead = 73 \/ lookahead = 105 THEN ADVANCE(115) ELSE
        IF (48 <= lookahead /\ lookahead <= 57) \/ (65 <= lookahead /\ lookahead <= 90) \/ lookahead = 95 \/ (97 <= lookahead /\ lookahead <= 122) THEN ADVANCE(128) ELSE
        END_STATE)

ts_lex_51(lookahead, eof) ==
    ACCEPT_TOKEN(sym_identifier,
        IF lookahead = 73 \/ lookahead = 105 THEN ADVANCE(124) ELSE
        IF (48 <= lookahead /\ lookahead <= 57) \/ (65 <= lookahead /\ lookahead <= 90) \/ lookahead = 95 \/ (97 <= lookahead /\ lookahead <= 122) THEN ADVANCE(128) ELSE
        END_STATE)

ts_lex_52(lookahead, eof) ==
    ACCEPT_TOKEN(sym_identifier,
        IF lookahead = 73 \/ lookahead = 105 THEN ADVANCE(114) ELSE
        IF (48 <= lookahead /\ lookahead <= 57) \/ (65 <= lookahead /\ lookahead <= 90) \/ lookahead = 95 \/ (97 <= lookahead /\ lookahead <= 122) THEN ADVANCE(128) ELSE
        END_STATE)

ts_lex_53(lookahead, eof) ==
    ACCEPT_TOKEN(sym_identifier,
        IF lookahead = 73 \/ lookahead = 105 THEN ADVANCE(35) ELSE
        IF (48 <= lookahead /\ lookahead <= 57) \/ (65 <= lookahead /\ lookahead <= 90) \/ lookahead = 95 \/ (97 <= lookahead /\ lookahead <= 122) THEN ADVANCE(128) ELSE
        END_STATE)

ts_lex_54(lookahead, eof) ==
    ACCEPT_TOKEN(sym_identifier,
        IF lookahead = 73 \/ lookahead = 105 THEN ADVANCE(93) ELSE
        IF (48 <= lookahead /\ lookahead <= 57) \/ (65 <= lookahead /\ lookahead <= 90) \/ lookahead = 95 \/ (97 <= lookahead /\ lookahead <= 122) THEN ADVANCE(128) ELSE
        END_STATE)

ts_lex_55(lookahead, eof) ==
    ACCEPT_TOKEN(sym_identifier,
        IF lookahead = 73 \/ lookahead = 105 THEN ADVANCE(91) ELSE
        IF (48 <= lookahead /\ lookahead <= 57) \/ (65 <= lookahead /\ lookahead <= 90) \/ lookahead = 95 \/ (97 <= lookahead /\ lookahead <= 122) THEN ADVANCE(128) ELSE
        END_STATE)

ts_lex_56(lookahead, eof) ==
    ACCEPT_TOKEN(sym_identifier,
        IF lookahead = 73 \/ lookahead = 105 THEN ADVANCE(78) ELSE
        IF (48 <= lookahead /\ lookahead <= 57) \/ (65 <= lookahead /\ lookahead <= 90) \/ lookahead = 95 \/ (97 <= lookahead /\ lookahead <= 122) THEN ADVANCE(128) ELSE
        END_STATE)

ts_lex_57(lookahead, eof) ==
    ACCEPT_TOKEN(sym_identifier,
        IF lookahead = 73 \/ lookahead = 105 THEN ADVANCE(80) ELSE
        IF (48 <= lookahead /\ lookahead <= 57) \/ (65 <= lookahead /\ lookahead <= 90) \/ lookahead = 95 \/ (97 <= lookahead /\ lookahead <= 122) THEN ADVANCE(128) ELSE
        END_STATE)

ts_lex_58(lookahead, eof) ==
    ACCEPT_TOKEN(sym_identifier,
        IF lookahead = 73 \/ lookahead = 105 THEN ADVANCE(64) ELSE
        IF (48 <= lookahead /\ lookahead <= 57) \/ (65 <= lookahead /\ lookahead <= 90) \/ lookahead = 95 \/ (97 <= lookahead /\ lookahead <= 122) THEN ADVANCE(128) ELSE
        END_STATE)

ts_lex_59(lookahead, eof) ==
    ACCEPT_TOKEN(sym_identifier,
        IF lookahead = 73 \/ lookahead = 105 THEN ADVANCE(70) ELSE
        IF (48 <= lookahead /\ lookahead <= 57) \/ (65 <= lookahead /\ lookahead <= 90) \/ lookahead = 95 \/ (97 <= lookahead /\ lookahead <= 122) THEN ADVANCE(128) ELSE
        END_STATE)

ts_lex_60(lookahead, eof) ==
    ACCEPT_TOKEN(sym_identifier,
        IF lookahead = 73 \/ lookahead = 105 THEN ADVANCE(86) ELSE
        IF (48 <= lookahead /\ lookahead <= 57) \/ (65 <= lookahead /\ lookahead <= 90) \/ lookahead = 95 \/ (97 <= lookahead /\ lookahead <= 122) THEN ADVANCE(128) ELSE
        END_STATE)

ts_lex_61(lookahead, eof) ==
    ACCEPT_TOKEN(sym_identifier,
        IF lookahead = 73 \/ lookahead = 105 THEN ADVANCE(88) ELSE
        IF (48 <= lookahead /\ lookahead <= 57) \/ (65 <= lookahead /\ lookahead <= 90) \/ lookahead = 95 \/ (97 <= lookahead /\ lookahead <= 122) THEN ADVANCE(128) ELSE
        END_STATE)

ts_lex_62(lookahead, eof) ==
    ACCEPT_TOKEN(sym_identifier,
        IF lookahead = 73 \/ lookahead = 105 THEN ADVANCE(118) ELSE
        IF (48 <= lookahead /\ lookahead <= 57) \/ (65 <= lookahead /\ lookahead <= 90) \/ lookahead = 95 \/ (97 <= lookahead /\ lookahead <= 122) THEN ADVANCE(128) ELSE
        END_STATE)

ts_lex_63(lookahead, eof) ==
    ACCEPT_TOKEN(sym_identifier,
        IF lookahead = 75 \/ lookahead = 107 THEN ADVANCE(13) ELSE
        IF (48 <= lookahead /\ lookahead <= 57) \/ (65 <= lookahead /\ lookahead <= 90) \/ lookahead = 95 \/ (97 <= lookahead /\ lookahead <= 122) THEN ADVANCE(128) ELSE
        END_STATE)

ts_lex_64(lookahead, eof) ==
    ACCEPT_TOKEN(sym_identifier,
        IF lookahead = 76 \/ lookahead = 108 THEN ADVANCE(13) ELSE
        IF (48 <= lookahead /\ lookahead <= 57) \/ (65 <= lookahead /\ lookahead <= 90) \/ lookahead = 95 \/ (97 <= lookahead /\ lookahead <= 122) THEN ADVANCE(128) ELSE
        END_STATE)

ts_lex_65_ADVANCE_MAP(lookahead) ==
    IF lookahead = 76 THEN ADVANCE(108) ELSE
    IF lookahead = 108 THEN ADVANCE(108) ELSE
    IF lookahead = 78 THEN ADVANCE(33) ELSE
    IF lookahead = 110 THEN ADVANCE(33) ELSE
    IF lookahead = 82 THEN ADVANCE(101) ELSE
    IF lookahead = 114 THEN ADVANCE(101) ELSE
    IF lookahead = 88 THEN ADVANCE(52) ELSE
    IF lookahead = 120 THEN ADVANCE(52) ELSE
    END_STATE

ts_lex_65(lookahead, eof) ==
    ACCEPT_TOKEN(sym_identifier,
        IF ts_lex_65_ADVANCE_MAP(lookahead).op = "ADVANCE" THEN ts_lex_65_ADVANCE_MAP(lookahead) ELSE
        IF (48 <= lookahead /\ lookahead <= 57) \/ (65 <= lookahead /\ lookahead <= 90) \/ lookahead = 95 \/ (97 <= lookahead /\ lookahead <= 122) THEN ADVANCE(128) ELSE
        END_STATE)

ts_lex_66(lookahead, eof) ==
    ACCEPT_TOKEN(sym_identifier,
        IF lookahead = 76 \/ lookahead = 108 THEN ADVANCE(108) ELSE
        IF (48 <= lookahead /\ lookahead <= 57) \/ (65 <= lookahead /\ lookahead <= 90) \/ lookahead = 95 \/ (97 <= lookahead /\ lookahead <= 122) THEN ADVANCE(128) ELSE
        END_STATE)

ts_lex_67(lookahead, eof) ==
    ACCEPT_TOKEN(sym_identifier,
        IF lookahead = 76 \/ lookahead = 108 THEN ADVANCE(114) ELSE
        IF (48 <= lookahead /\ lookahead <= 57) \/ (65 <= lookahead /\ lookahead <= 90) \/ lookahead = 95 \/ (97 <= lookahead /\ lookahead <= 122) THEN ADVANCE(128) ELSE
        END_STATE)

ts_lex_68(lookahead, eof) ==
    ACCEPT_TOKEN(sym_identifier,
        IF lookahead = 76 \/ lookahead = 108 THEN ADVANCE(44) ELSE
        IF (48 <= lookahead /\ lookahead <= 57) \/ (65 <= lookahead /\ lookahead <= 90) \/ lookahead = 95 \/ (97 <= lookahead /\ lookahead <= 122) THEN ADVANCE(128) ELSE
        END_STATE)

ts_lex_69(lookahead, eof) ==
    ACCEPT_TOKEN(sym_identifier,
        IF lookahead = 76 \/ lookahead = 108 THEN ADVANCE(84) ELSE
        IF (48 <= lookahead /\ lookahead <= 57) \/ (65 <= lookahead /\ lookahead <= 90) \/ lookahead = 95 \/ (97 <= lookahead /\ lookahead <= 122) THEN ADVANCE(128) ELSE
        END_STATE)

ts_lex_70(lookahead, eof) ==
    ACCEPT_TOKEN(sym_identifier,
        IF lookahead = 76 \/ lookahead = 108 THEN ADVANCE(37) ELSE
        IF (48 <= lookahead /\ lookahead <= 57) \/ (65 <= lookahead /\ lookahead <= 90) \/ lookahead = 95 \/ (97 <= lookahead /\ lookahead <= 122) THEN ADVANCE(128) ELSE
        END_STATE)

ts_lex_71(lookahead, eof) ==
    ACCEPT_TOKEN(sym_identifier,
        IF lookahead = 76 \/ lookahead = 108 THEN ADVANCE(121) ELSE
        IF (48 <= lookahead /\ lookahead <= 57) \/ (65 <= lookahead /\ lookahead <= 90) \/ lookahead = 95 \/ (97 <= lookahead /\ lookahead <= 122) THEN ADVANCE(128) ELSE
        END_STATE)

ts_lex_72(lookahead, eof) ==
    ACCEPT_TOKEN(sym_identifier,
        IF lookahead = 76 \/ lookahead = 108 THEN ADVANCE(64) ELSE
        IF (48 <= lookahead /\ lookahead <= 57) \/ (65 <= lookahead /\ lookahead <= 90) \/ lookahead = 95 \/ (97 <= lookahead /\ lookahead <= 122) THEN ADVANCE(128) ELSE
        END_STATE)

ts_lex_73(lookahead, eof) ==
    ACCEPT_TOKEN(sym_identifier,
        IF lookahead = 77 \/ lookahead = 109 THEN ADVANCE(13) ELSE
        IF (48 <= lookahead /\ lookahead <= 57) \/ (65 <= lookahead /\ lookahead <= 90) \/ lookahead = 95 \/ (97 <= lookahead /\ lookahead <= 122) THEN ADVANCE(128) ELSE
        END_STATE)

ts_lex_74(lookahead, eof) ==
    ACCEPT_TOKEN(sym_identifier,
        IF lookahead = 77 \/ lookahead = 109 THEN ADVANCE(43) ELSE
        IF (48 <= lookahead /\ lookahead <= 57) \/ (65 <= lookahead /\ lookahead <= 90) \/ lookahead = 95 \/ (97 <= lookahead /\ lookahead <= 122) THEN ADVANCE(128) ELSE
        END_STATE)

ts_lex_75(lookahead, eof) ==
    ACCEPT_TOKEN(sym_identifier,
        IF lookahead = 77 \/ lookahead = 109 THEN ADVANCE(39) ELSE
        IF (48 <= lookahead /\ lookahead <= 57) \/ (65 <= lookahead /\ lookahead <= 90) \/ lookahead = 95 \/ (97 <= lookahead /\ lookahead <= 122) THEN ADVANCE(128) ELSE
        END_STATE)

ts_lex_76(lookahead, eof) ==
    ACCEPT_TOKEN(sym_identifier,
        IF lookahead = 78 \/ lookahead = 110 THEN ADVANCE(13) ELSE
        IF (48 <= lookahead /\ lookahead <= 57) \/ (65 <= lookahead /\ lookahead <= 90) \/ lookahead = 95 \/ (97 <= lookahead /\ lookahead <= 122) THEN ADVANCE(128) ELSE
        END_STATE)

ts_lex_77(lookahead, eof) ==
    ACCEPT_TOKEN(sym_identifier,
        IF lookahead = 78 \/ lookahead = 110 THEN ADVANCE(110) ELSE
        IF (48 <= lookahead /\ lookahead <= 57) \/ (65 <= lookahead /\ lookahead <= 90) \/ lookahead = 95 \/ (97 <= lookahead /\ lookahead <= 122) THEN ADVANCE(128) ELSE
        END_STATE)

\* Faulty variant of case 78: scripti and missi, short of the ending ng, are
\* keywords.
ts_lex_78_prefix_keyword(lookahead, eof) ==
    ACCEPT_TOKEN(sym_keyword,
        IF lookahead = 78 \/ lookahead = 110 THEN ADVANCE(47) ELSE
        IF (48 <= lookahead /\ lookahead <= 57) \/ (65 <= lookahead /\ lookahead <= 90) \/ lookahead = 95 \/ (97 <= lookahead /\ lookahead <= 122) THEN ADVANCE(128) ELSE
        END_STATE)

ts_lex_78(lookahead, eof) ==
    ACCEPT_TOKEN(sym_identifier,
        IF lookahead = 78 \/ lookahead = 110 THEN ADVANCE(47) ELSE
        IF (48 <= lookahead /\ lookahead <= 57) \/ (65 <= lookahead /\ lookahead <= 90) \/ lookahead = 95 \/ (97 <= lookahead /\ lookahead <= 122) THEN ADVANCE(128) ELSE
        END_STATE)

ts_lex_79(lookahead, eof) ==
    ACCEPT_TOKEN(sym_identifier,
        IF lookahead = 78 \/ lookahead = 110 THEN ADVANCE(119) ELSE
        IF lookahead = 83 \/ lookahead = 115 THEN ADVANCE(37) ELSE
        IF (48 <= lookahead /\ lookahead <= 57) \/ (65 <= lookahead /\ lookahead <= 90) \/ lookahead = 95 \/ (97 <= lookahead /\ lookahead <= 122) THEN ADVANCE(128) ELSE
        END_STATE)

ts_lex_80(lookahead, eof) ==
    ACCEPT_TOKEN(sym_identifier,
        IF lookahead = 78 \/ lookahead = 110 THEN ADVANCE(106) ELSE
        IF (48 <= lookahead /\ lookahead <= 57) \/ (65 <= lookahead /\ lookahead <= 90) \/ lookahead = 95 \/ (97 <= lookahead /\ lookahead <= 122) THEN ADVANCE(128) ELSE
        END_STATE)

ts_lex_81(lookahead, eof) ==
    ACCEPT_TOKEN(sym_identifier,
        IF lookahead = 78 \/ lookahead = 110 THEN ADVANCE(90) ELSE
        IF (48 <= lookahead /\ lookahead <= 57) \/ (65 <= lookahead /\ lookahead <= 90) \/ lookahead = 95 \/ (97 <= lookahead /\ lookahead <= 122) THEN ADVANCE(128) ELSE
        END_STATE)

ts_lex_82(lookahead, eof) ==
    ACCEPT_TOKEN(sym_identifier,
        IF lookahead = 79 \/ lookahead = 111 THEN ADVANCE(28) ELSE
        IF (48 <= lookahead /\ lookahead <= 57) \/ (65 <= lookahead /\ lookahead <= 90) \/ lookahead = 95 \/ (97 <= lookahead /\ lookahead <= 122) THEN ADVANCE(128) ELSE
        END_STATE)

ts_lex_83(lookahead, eof) ==
    ACCEPT_TOKEN(sym_identifier,
        IF lookahead = 79 \/ lookahead = 111 THEN ADVANCE(114) ELSE
        IF (48 <= lookahead /\ lookahead <= 57) \/ (65 <= lookahead /\ lookahead <= 90) \/ lookahead = 95 \/ (97 <= lookahead /\ lookahead <= 122) THEN ADVANCE(128) ELSE
        END_STATE)

ts_lex_84(lookahead, eof) ==
    ACCEPT_TOKEN(sym_identifier,
        IF lookahead = 79 \/ lookahead = 111 THEN ADVANCE(27) ELSE
        IF (48 <= lookahead /\ lookahead <= 57) \/ (65 <= lookahead /\ lookahead <= 90) \/ lookahead = 95 \/ (97 <= lookahead /\ lookahead <= 122) THEN ADVANCE(128) ELSE
        END_STATE)

ts_lex_85(lookahead, eof) ==
    ACCEPT_TOKEN(sym_identifier,
        IF lookahead = 79 \/ lookahead = 111 THEN ADVANCE(95) ELSE
        IF (48 <= lookahead /\ lookahead <= 57) \/ (65 <= lookahead /\ lookahead <= 90) \/ lookahead = 95 \/ (97 <= lookahead /\ lookahead <= 122) THEN ADVANCE(128) ELSE
        END_STATE)

ts_lex_86(lookahead, eof) ==
    ACCEPT_TOKEN(sym_identifier,
        IF lookahead = 79 \/ lookahead = 111 THEN ADVANCE(76) ELSE
        IF (48 <= lookahead /\ lookahead <= 57) \/ (65 <= lookahead /\ lookahead <= 90) \/ lookahead = 95 \/ (97 <= lookahead /\ lookahead <= 122) THEN ADVANCE(128) ELSE
        END_STATE)

ts_lex_87(lookahead, eof) ==
    ACCEPT_TOKEN(sym_identifier,
        IF lookahead = 79 \/ lookahead = 111 THEN ADVANCE(96) ELSE
        IF (48 <= lookahead /\ lookahead <= 57) \/ (65 <= lookahead /\ lookahead <= 90) \/ lookahead = 95 \/ (97 <= lookahead /\ lookahead <= 122) THEN ADVANCE(128) ELSE
        END_STATE)

ts_lex_88(lookahead, eof) ==
    ACCEPT_TOKEN(sym_identifier,
        IF lookahead = 79 \/ lookahead = 111 THEN ADVANCE(80) ELSE
        IF (48 <= lookahead /\ lookahead <= 57) \/ (65 <= lookahead /\ lookahead <= 90) \/ lookahead = 95 \/ (97 <= lookahead /\ lookahead <= 122) THEN ADVANCE(128) ELSE
        END_STATE)

ts_lex_89(lookahead, eof) ==
    ACCEPT_TOKEN(sym_identifier,
        IF lookahead = 79 \/ lookahead = 111 THEN ADVANCE(97) ELSE
        IF (48 <= lookahead /\ lookahead <= 57) \/ (65 <= lookahead /\ lookahead <= 90) \/ lookahead = 95 \/ (97 <= lookahead /\ lookahead <= 122) THEN ADVANCE(128) ELSE
        END_STATE)

ts_lex_90(lookahead, eof) ==
    ACCEPT_TOKEN(sym_identifier,
        IF lookahead = 79 \/ lookahead = 111 THEN ADVANCE(103) ELSE
        IF (48 <= lookahead /\ lookahead <= 57) \/ (65 <= lookahead /\ lookahead <= 90) \/ lookahead = 95 \/ (97 <= lookahead /\ lookahead <= 122) THEN ADVANCE(128) ELSE
        END_STATE)

ts_lex_91(lookahead, eof) ==
    ACCEPT_TOKEN(sym_identifier,
        IF lookahead = 80 \/ lookahead = 112 THEN ADVANCE(114) ELSE
        IF (48 <= lookahead /\ lookahead <= 57) \/ (65 <= lookahead /\ lookahead <= 90) \/ lookahead = 95 \/ (97 <= lookahead /\ lookahead <= 122) THEN ADVANCE(128) ELSE
        END_STATE)

ts_lex_92(lookahead, eof) ==
    ACCEPT_TOKEN(sym_identifier,
        IF lookahead = 80 \/ lookahead = 112 THEN ADVANCE(42) ELSE
        IF lookahead = 83 \/ lookahead = 115 THEN ADVANCE(123) ELSE
        IF lookahead = 84 \/ lookahead = 116 THEN ADVANCE(122) ELSE
        IF (48 <= lookahead /\ lookahead <= 57) \/ (65 <= lookahead /\ lookahead <= 90) \/ lookahead = 95 \/ (97 <= lookahead /\ lookahead <= 122) THEN ADVANCE(128) ELSE
        END_STATE)

ts_lex_93(lookahead, eof) ==
    ACCEPT_TOKEN(sym_identifier,
        IF lookahead = 80 \/ lookahead = 112 THEN ADVANCE(116) ELSE
        IF (48 <= lookahead /\ lookahead <= 57) \/ (65 <= lookahead /\ lookahead <= 90) \/ lookahead = 95 \/ (97 <= lookahead /\ lookahead <= 122) THEN ADVANCE(128) ELSE
        END_STATE)

ts_lex_94(lookahead, eof) ==
    ACCEPT_TOKEN(sym_identifier,
        IF lookahead = 80 \/ lookahead = 112 THEN ADVANCE(68) ELSE
        IF (48 <= lookahead /\ lookahead <= 57) \/ (65 <= lookahead /\ lookahead <= 90) \/ lookahead = 95 \/ (97 <= lookahead /\ lookahead <= 122) THEN ADVANCE(128) ELSE
        END_STATE)

ts_lex_95(lookahead, eof) ==
    ACCEPT_TOKEN(sym_identifier,
        IF lookahead = 80 \/ lookahead = 112 THEN ADVANCE(45) ELSE
        IF (48 <= lookahead /\ lookahead <= 57) \/ (65 <= lookahead /\ lookahead <= 90) \/ lookahead = 95 \/ (97 <= lookahead /\ lookahead <= 122) THEN ADVANCE(128) ELSE
        END_STATE)

ts_lex_96(lookahead, eof) ==
    ACCEPT_TOKEN(sym_identifier,
        IF lookahead = 82 \/ lookahead = 114 THEN ADVANCE(13) ELSE
        IF (48 <= lookahead /\ lookahead <= 57) \/ (65 <= lookahead /\ lookahead <= 90) \/ lookahead = 95 \/ (97 <= lookahead /\ lookahead <= 122) THEN ADVANCE(128) ELSE
        END_STATE)

ts_lex_97(lookahead, eof) ==
    ACCEPT_TOKEN(sym_identifier,
        IF lookahead = 82 \/ lookahead = 114 THEN ADVANCE(63) ELSE
        IF (48 <= lookahead /\ lookahead <= 57) \/ (65 <= lookahead /\ lookahead <= 90) \/ lookahead = 95 \/ (97 <= lookahead /\ lookahead <= 122) THEN ADVANCE(128) ELSE
        END_STATE)

ts_lex_98(lookahead, eof) ==
    ACCEPT_TOKEN(sym_identifier,
        IF lookahead = 82 \/ lookahead = 114 THEN ADVANCE(76) ELSE
        IF (48 <= lookahead /\ lookahead <= 57) \/ (65 <= lookahead /\ lookahead <= 90) \/ lookahead = 95 \/ (97 <= lookahead /\ lookahead <= 122) THEN ADVANCE(128) ELSE
        END_STATE)

ts_lex_99(lookahead, eof) ==
    ACCEPT_TOKEN(sym_identifier,
        IF lookahead = 82 \/ lookahead = 114 THEN ADVANCE(85) ELSE
        IF (48 <= lookahead /\ lookahead <= 57) \/ (65 <= lookahead /\ lookahead <= 90) \/ lookahead = 95 \/ (97 <= lookahead /\ lookahead <= 122) THEN ADVANCE(128) ELSE
        END_STATE)

ts_lex_100(lookahead, eof) ==
    ACCEPT_TOKEN(sym_identifier,
        IF lookahead = 82 \/ lookahead = 114 THEN ADVANCE(54) ELSE
        IF (48 <= lookahead /\ lookahead <= 57) \/ (65 <= lookahead /\ lookahead <= 90) \/ lookahead = 95 \/ (97 <= lookahead /\ lookahead <= 122) THEN ADVANCE(128) ELSE
        END_STATE)

ts_lex_101(lookahead, eof) ==
    ACCEPT_TOKEN(sym_identifier,
        IF lookahead = 82 \/ lookahead = 114 THEN ADVANCE(87) ELSE
        IF (48 <= lookahead /\ lookahead <= 57) \/ (65 <= lookahead /\ lookahead <= 90) \/ lookahead = 95 \/ (97 <= lookahead /\ lookahead <= 122) THEN ADVANCE(128) ELSE
        END_STATE)

ts_lex_102(lookahead, eof) ==
    ACCEPT_TOKEN(sym_identifier,
        IF lookahead = 82 \/ lookahead = 114 THEN ADVANCE(113) ELSE
        IF (48 <= lookahead /\ lookahead <= 57) \/ (65 <= lookahead /\ lookahead <= 90) \/ lookahead = 95 \/ (97 <= lookahead /\ lookahead <= 122) THEN ADVANCE(128) ELSE
        END_STATE)

ts_lex_103(lookahead, eof) ==
    ACCEPT_TOKEN(sym_identifier,
        IF lookahead = 82 \/ lookahead = 114 THEN ADVANCE(56) ELSE
        IF (48 <= lookahead /\ lookahead <= 57) \/ (65 <= lookahead /\ lookahead <= 90) \/ lookahead = 95 \/ (97 <= lookahead /\ lookahead <= 122) THEN ADVANCE(128) ELSE
        END_STATE)

ts_lex_104(lookahead, eof) ==
    ACCEPT_TOKEN(sym_identifier,
        IF lookahead = 82 \/ lookahead = 114 THEN ADVANCE(55) ELSE
        IF (48 <= lookahead /\ lookahead <= 57) \/ (65 <= lookahead /\ lookahead <= 90) \/ lookahead = 95 \/ (97 <= lookahead /\ lookahead <= 122) THEN ADVANCE(128) ELSE
        END_STATE)

ts_lex_105(lookahead, eof) ==
    ACCEPT_TOKEN(sym_identifier,
        IF lookahead = 82 \/ lookahead = 114 THEN ADVANCE(112) ELSE
        IF (48 <= lookahead /\ lookahead <= 57) \/ (65 <= lookahead /\ lookahead <= 90) \/ lookahead = 95 \/ (97 <= lookahead /\ lookahead <= 122) THEN ADVANCE(128) ELSE
        END_STATE)

ts_lex_106(lookahead, eof) ==
    ACCEPT_TOKEN(sym_identifier,
        IF lookahead = 83 \/ lookahead = 115 THEN ADVANCE(13) ELSE
        IF (48 <= lookahead /\ lookahead <= 57) \/ (65 <= lookahead /\ lookahead <= 90) \/ lookahead = 95 \/ (97 <= lookahead /\ lookahead <= 122) THEN ADVANCE(128) ELSE
        END_STATE)

ts_lex_107(lookahead, eof) ==
    ACCEPT_TOKEN(sym_identifier,
        IF lookahead = 83 \/ lookahead = 115 THEN ADVANCE(31) ELSE
        IF (48 <= lookahead /\ lookahead <= 57) \/ (65 <= lookahead /\ lookahead <= 90) \/ lookahead = 95 \/ (97 <= lookahead /\ lookahead <= 122) THEN ADVANCE(128) ELSE
        END_STATE)

ts_lex_108(lookahead, eof) ==
    ACCEPT_TOKEN(sym_identifier,
        IF lookahead = 83 \/ lookahead = 115 THEN ADVANCE(37) ELSE
        IF (48 <= lookahead /\ lookahead <= 57) \/ (65 <= lookahead /\ lookahead <= 90) \/ lookahead = 95 \/ (97 <= lookahead /\ lookahead <= 122) THEN ADVANCE(128) ELSE
        END_STATE)

ts_lex_109(lookahead, eof) ==
    ACCEPT_TOKEN(sym_identifier,
        IF lookahead = 83 \/ lookahead = 115 THEN ADVANCE(111) ELSE
        IF (48 <= lookahead /\ lookahead <= 57) \/ (65 <= lookahead /\ lookahead <= 90) \/ lookahead = 95 \/ (97 <= lookahead /\ lookahead <= 122) THEN ADVANCE(128) ELSE
        END_STATE)

ts_lex_110(lookahead, eof) ==
    ACCEPT_TOKEN(sym_identifier,
        IF lookahead = 83 \/ lookahead = 115 THEN ADVANCE(53) ELSE
        IF lookahead = 84 \/ lookahead = 116 THEN ADVANCE(24) ELSE
        IF (48 <= lookahead /\ lookahead <= 57) \/ (65 <= lookahead /\ lookahead <= 90) \/ lookahead = 95 \/ (97 <= lookahead /\ lookahead <= 122) THEN ADVANCE(128) ELSE
        END_STATE)

ts_lex_111(lookahead, eof) ==
    ACCEPT_TOKEN(sym_identifier,
        IF lookahead = 83 \/ lookahead = 115 THEN ADVANCE(56) ELSE
        IF (48 <= lookahead /\ lookahead <= 57) \/ (65 <= lookahead /\ lookahead <= 90) \/ lookahead = 95 \/ (97 <= lookahead /\ lookahead <= 122) THEN ADVANCE(128) ELSE
        END_STATE)

ts_lex_112(lookahead, eof) ==
    ACCEPT_TOKEN(sym_identifier,
        IF lookahead = 83 \/ lookahead = 115 THEN ADVANCE(60) ELSE
        IF (48 <= lookahead /\ lookahead <= 57) \/ (65 <= lookahead /\ lookahead <= 90) \/ lookahead = 95 \/ (97 <= lookahead /\ lookahead <= 122) THEN ADVANCE(128) ELSE
        END_STATE)

ts_lex_113(lookahead, eof) ==
    ACCEPT_TOKEN(sym_identifier,
        IF lookahead = 84 \/ lookahead = 116 THEN ADVANCE(126) ELSE
        IF (48 <= lookahead /\ lookahead <= 57) \/ (65 <= lookahead /\ lookahead <= 90) \/ lookahead = 95 \/ (97 <= lookahead /\ lookahead <= 122) THEN ADVANCE(128) ELSE
        END_STATE)

ts_lex_114(lookahead, eof) ==
    ACCEPT_TOKEN(sym_identifier,
        IF lookahead = 84 \/ lookahead = 116 THEN ADVANCE(13) ELSE
        IF (48 <= lookahead /\ lookahead <= 57) \/ (65 <= lookahead /\ lookahead <= 90) \/ lookahead = 95 \/ (97 <= lookahead /\ lookahead <= 122) THEN ADVANCE(128) ELSE
        END_STATE)

ts_lex_115(lookahead, eof) ==
    ACCEPT_TOKEN(sym_identifier,
        IF lookahead = 84 \/ lookahead = 116 THEN ADVANCE(49) ELSE
        IF (48 <= lookahead /\ lookahead <= 57) \/ (65 <= lookahead /\ lookahead <= 90) \/ lookahead = 95 \/ (97 <= lookahead /\ lookahead <= 122) THEN ADVANCE(128) ELSE
        END_STATE)

ts_lex_116(lookahead, eof) ==
    ACCEPT_TOKEN(sym_identifier,
        IF lookahead = 84 \/ lookahead = 116 THEN ADVANCE(12) ELSE
        IF (48 <= lookahead /\ lookahead <= 57) \/ (65 <= lookahead /\ lookahead <= 90) \/ lookahead = 95 \/ (97 <= lookahead /\ lookahead <= 122) THEN ADVANCE(128) ELSE
        END_STATE)

ts_lex_117(lookahead, eof) ==
    ACCEPT_TOKEN(sym_identifier,
        IF lookahead = 84 \/ lookahead = 116 THEN ADVANCE(60) ELSE
        IF (48 <= lookahead /\ lookahead <= 57) \/ (65 <= lookahead /\ lookahead <= 90) \/ lookahead = 95 \/ (97 <= lookahead /\ lookahead <= 122) THEN ADVANCE(128) ELSE
        END_STATE)

ts_lex_118(lookahead, eof) ==
    ACCEPT_TOKEN(sym_identifier,
        IF lookahead = 84 \/ lookahead = 116 THEN ADVANCE(61) ELSE
        IF (48 <= lookahead /\ lookahead <= 57) \/ (65 <= lookahead /\ lookahead <= 90) \/ lookahead = 95 \/ (97 <= lookahead /\ lookahead <= 122) THEN ADVANCE(128) ELSE
        END_STATE)

ts_lex_119(lookahead, eof) ==
    ACCEPT_TOKEN(sym_identifier,
        IF lookahead = 84 \/ lookahead = 116 THEN ADVANCE(58) ELSE
        IF (48 <= lookahead /\ lookahead <= 57) \/ (65 <= lookahead /\ lookahead <= 90) \/ lookahead = 95 \/ (97 <= lookahead /\ lookahead <= 122) THEN ADVANCE(128) ELSE
        END_STATE)

ts_lex_120(lookahead, eof) ==
    ACCEPT_TOKEN(sym_identifier,
        IF lookahead = 85 \/ lookahead = 117 THEN ADVANCE(37) ELSE
        IF lookahead = 89 \/ lookahead = 121 THEN ADVANCE(13) ELSE
        IF (48 <= lookahead /\ lookahead <= 57) \/ (65 <= lookahead /\ lookahead <= 90) \/ lookahead = 95 \/ (97 <= lookahead /\ lookahead <= 122) THEN ADVANCE(128) ELSE
        END_STATE)

ts_lex_121(lookahead, eof) ==
    ACCEPT_TOKEN(sym_identifier,
        IF lookahead = 85 \/ lookahead = 117 THEN ADVANCE(37) ELSE
        IF (48 <= lookahead /\ lookahead <= 57) \/ (65 <= lookahead /\ lookahead <= 90) \/ lookahead = 95 \/ (97 <= lookahead /\ lookahead <= 122) THEN ADVANCE(128) ELSE
        END_STATE)

ts_lex_122(lookahead, eof) ==
    ACCEPT_TOKEN(sym_identifier,
        IF lookahead = 85 \/ lookahead = 117 THEN ADVANCE(98) ELSE
        IF (48 <= lookahead /\ lookahead <= 57) \/ (65 <= lookahead /\ lookahead <= 90) \/ lookahead = 95 \/ (97 <= lookahead /\ lookahead <= 122) THEN ADVANCE(128) ELSE
        END_STATE)

ts_lex_123(lookahead, eof) ==
    ACCEPT_TOKEN(sym_identifier,
        IF lookahead = 85 \/ lookahead = 117 THEN ADVANCE(67) ELSE
        IF (48 <= lookahead /\ lookahead <= 57) \/ (65 <= lookahead /\ lookahead <= 90) \/ lookahead = 95 \/ (97 <= lookahead /\ lookahead <= 122) THEN ADVANCE(128) ELSE
        END_STATE)

ts_lex_124(lookahead, eof) ==
    ACCEPT_TOKEN(sym_identifier,
        IF lookahead = 86 \/ lookahead = 118 THEN ADVANCE(13) ELSE
        IF (48 <= lookahead /\ lookahead <= 57) \/ (65 <= lookahead /\ lookahead <= 90) \/ lookahead = 95 \/ (97 <= lookahead /\ lookahead <= 122) THEN ADVANCE(128) ELSE
        END_STATE)

ts_lex_125(lookahead, eof) ==
    ACCEPT_TOKEN(sym_identifier,
        IF lookahead = 87 \/ lookahead = 119 THEN ADVANCE(89) ELSE
        IF (48 <= lookahead /\ lookahead <= 57) \/ (65 <= lookahead /\ lookahead <= 90) \/ lookahead = 95 \/ (97 <= lookahead /\ lookahead <= 122) THEN ADVANCE(128) ELSE
        END_STATE)

\* Faulty variant of case 126: only the lower-case y completes the word by.
ts_lex_126_lower_only(lookahead, eof) ==
    ACCEPT_TOKEN(sym_identifier,
        IF lookahead = 121 THEN ADVANCE(13) ELSE
        IF (48 <= lookahead /\ lookahead <= 57) \/ (65 <= lookahead /\ lookahead <= 90) \/ lookahead = 95 \/ (97 <= lookahead /\ lookahead <= 122) THEN ADVANCE(128) ELSE
        END_STATE)

ts_lex_126(lookahead, eof) ==
    ACCEPT_TOKEN(sym_identifier,
        IF lookahead = 89 \/ lookahead = 121 THEN ADVANCE(13) ELSE
        IF (48 <= lookahead /\ lookahead <= 57) \/ (65 <= lookahead /\ lookahead <= 90) \/ lookahead = 95 \/ (97 <= lookahead /\ lookahead <= 122) THEN ADVANCE(128) ELSE
        END_STATE)

ts_lex_127(lookahead, eof) ==
    ACCEPT_TOKEN(sym_identifier,
        IF lookahead = 70 \/ lookahead = 78 \/ lookahead = 82 \/ lookahead = 102 \/ lookahead = 110 \/ lookahead = 114 THEN ADVANCE(13) ELSE
        IF (48 <= lookahead /\ lookahead <= 57) \/ (65 <= lookahead /\ lookahead <= 90) \/ lookahead = 95 \/ (97 <= lookahead /\ lookahead <= 122) THEN ADVANCE(128) ELSE
        END_STATE)

\* Faulty variant of case 128: the identifier state does not loop.
ts_lex_128_once(lookahead, eof) ==
    ACCEPT_TOKEN(sym_identifier,
        END_STATE)

ts_lex_128(lookahead, eof) ==
    ACCEPT_TOKEN(sym_identifier,
        IF (48 <= lookahead /\ lookahead <= 57) \/ (65 <= lookahead /\ lookahead <= 90) \/ lookahead = 95 \/ (97 <= lookahead /\ lookahead <= 122) THEN ADVANCE(128) ELSE
        END_STATE)

ts_lex(lex_state, lookahead, eof) ==
    CASE lex_state = 0 -> ts_lex_0(lookahead, eof)
      [] lex_state = 1 -> ts_lex_1(lookahead, eof)
      [] lex_state = 2 -> ts_lex_2(lookahead, eof)
      [] lex_state = 3 -> ts_lex_3(lookahead, eof)
      [] lex_state = 4 -> ts_lex_4(lookahead, eof)
      [] lex_state = 5 -> ts_lex_5(lookahead, eof)
      [] lex_state = 6 -> ts_lex_6(lookahead, eof)
      [] lex_state = 7 -> ts_lex_7(lookahead, eof)
      [] lex_state = 8 -> ts_lex_8(lookahead, eof)
      [] lex_state = 9 -> ts_lex_9(lookahead, eof)
      [] lex_state = 10 -> ts_lex_10(lookahead, eof)
      [] lex_state = 11 -> ts_lex_11(lookahead, eof)
      [] lex_state = 12 -> ts_lex_12(lookahead, eof)
      [] lex_state = 13 -> ts_lex_13(lookahead, eof)
      [] lex_state = 14 -> ts_lex_14(lookahead, eof)
      [] lex_state = 15 -> ts_lex_15(lookahead, eof)
      [] lex_state = 16 -> ts_lex_16(lookahead, eof)
      [] lex_state = 17 -> ts_lex_17(lookahead, eof)
      [] lex_state = 18 -> ts_lex_18(lookahead, eof)
      [] lex_state = 19 -> ts_lex_19(lookahead, eof)
      [] lex_state = 20 -> ts_lex_20(lookahead, eof)
      [] lex_state = 21 -> ts_lex_21(lookahead, eof)
      [] lex_state = 22 -> ts_lex_22(lookahead, eof)
      [] lex_state = 23 -> ts_lex_23(lookahead, eof)
      [] lex_state = 24 -> ts_lex_24(lookahead, eof)
      [] lex_state = 25 -> ts_lex_25(lookahead, eof)
      [] lex_state = 26 -> ts_lex_26(lookahead, eof)
      [] lex_state = 27 -> ts_lex_27(lookahead, eof)
      [] lex_state = 28 -> ts_lex_28(lookahead, eof)
      [] lex_state = 29 -> ts_lex_29(lookahead, eof)
      [] lex_state = 30 -> ts_lex_30(lookahead, eof)
      [] lex_state = 31 -> ts_lex_31(lookahead, eof)
      [] lex_state = 32 -> ts_lex_32(lookahead, eof)
      [] lex_state = 33 -> ts_lex_33(lookahead, eof)
      [] lex_state = 34 -> ts_lex_34(lookahead, eof)
      [] lex_state = 35 -> ts_lex_35(lookahead, eof)
      [] lex_state = 36 -> ts_lex_36(lookahead, eof)
      [] lex_state = 37 -> ts_lex_37(lookahead, eof)
      [] lex_state = 38 -> ts_lex_38(lookahead, eof)
      [] lex_state = 39 -> ts_lex_39(lookahead, eof)
      [] lex_state = 40 -> ts_lex_40(lookahead, eof)
      [] lex_state = 41 -> ts_lex_41(lookahead, eof)
      [] lex_state = 42 -> ts_lex_42(lookahead, eof)
      [] lex_state = 43 -> ts_lex_43(lookahead, eof)
      [] lex_state = 44 -> ts_lex_44(lookahead, eof)
      [] lex_state = 45 -> ts_lex_45(lookahead, eof)
      [] lex_state = 46 -> ts_lex_46(lookahead, eof)
      [] lex_state = 47 -> ts_lex_47(lookahead, eof)
      [] lex_state = 48 -> ts_lex_48(lookahead, eof)
      [] lex_state = 49 -> ts_lex_49(lookahead, eof)
      [] lex_state = 50 -> ts_lex_50(lookahead, eof)
      [] lex_state = 51 -> ts_lex_51(lookahead, eof)
      [] lex_state = 52 -> ts_lex_52(lookahead, eof)
      [] lex_state = 53 -> ts_lex_53(lookahead, eof)
      [] lex_state = 54 -> ts_lex_54(lookahead, eof)
      [] lex_state = 55 -> ts_lex_55(lookahead, eof)
      [] lex_state = 56 -> ts_lex_56(lookahead, eof)
      [] lex_state = 57 -> ts_lex_57(lookahead, eof)
      [] lex_state = 58 -> ts_lex_58(lookahead, eof)
      [] lex_state = 59 -> ts_lex_59(lookahead, eof)
      [] lex_state = 60 -> ts_lex_60(lookahead, eof)
      [] lex_state = 61 -> ts_lex_61(lookahead, eof)
      [] lex_state = 62 -> ts_lex_62(lookahead, eof)
      [] lex_state = 63 -> ts_lex_63(lookahead, eof)
      [] lex_state = 64 -> ts_lex_64(lookahead, eof)
      [] lex_state = 65 -> ts_lex_65(lookahead, eof)
      [] lex_state = 66 -> ts_lex_66(lookahead, eof)
      [] lex_state = 67 -> ts_lex_67(lookahead, eof)
      [] lex_state = 68 -> ts_lex_68(lookahead, eof)
      [] lex_state = 69 -> ts_lex_69(lookahead, eof)
      [] lex_state = 70 -> ts_lex_70(lookahead, eof)
      [] lex_state = 71 -> ts_lex_71(lookahead, eof)
      [] lex_state = 72 -> ts_lex_72(lookahead, eof)
      [] lex_state = 73 -> ts_lex_73(lookahead, eof)
      [] lex_state = 74 -> ts_lex_74(lookahead, eof)
      [] lex_state = 75 -> ts_lex_75(lookahead, eof)
      [] lex_state = 76 -> ts_lex_76(lookahead, eof)
      [] lex_state = 77 -> ts_lex_77(lookahead, eof)
      [] lex_state = 78 -> ts_lex_78(lookahead, eof)
      [] lex_state = 79 -> ts_lex_79(lookahead, eof)
      [] lex_state = 80 -> ts_lex_80(lookahead, eof)
      [] lex_state = 81 -> ts_lex_81(lookahead, eof)
      [] lex_state = 82 -> ts_lex_82(lookahead, eof)
      [] lex_state = 83 -> ts_lex_83(lookahead, eof)
      [] lex_state = 84 -> ts_lex_84(lookahead, eof)
      [] lex_state = 85 -> ts_lex_85(lookahead, eof)
      [] lex_state = 86 -> ts_lex_86(lookahead, eof)
      [] lex_state = 87 -> ts_lex_87(lookahead, eof)
      [] lex_state = 88 -> ts_lex_88(lookahead, eof)
      [] lex_state = 89 -> ts_lex_89(lookahead, eof)
      [] lex_state = 90 -> ts_lex_90(lookahead, eof)
      [] lex_state = 91 -> ts_lex_91(lookahead, eof)
      [] lex_state = 92 -> ts_lex_92(lookahead, eof)
      [] lex_state = 93 -> ts_lex_93(lookahead, eof)
      [] lex_state = 94 -> ts_lex_94(lookahead, eof)
      [] lex_state = 95 -> ts_lex_95(lookahead, eof)
      [] lex_state = 96 -> ts_lex_96(lookahead, eof)
      [] lex_state = 97 -> ts_lex_97(lookahead, eof)
      [] lex_state = 98 -> ts_lex_98(lookahead, eof)
      [] lex_state = 99 -> ts_lex_99(lookahead, eof)
      [] lex_state = 100 -> ts_lex_100(lookahead, eof)
      [] lex_state = 101 -> ts_lex_101(lookahead, eof)
      [] lex_state = 102 -> ts_lex_102(lookahead, eof)
      [] lex_state = 103 -> ts_lex_103(lookahead, eof)
      [] lex_state = 104 -> ts_lex_104(lookahead, eof)
      [] lex_state = 105 -> ts_lex_105(lookahead, eof)
      [] lex_state = 106 -> ts_lex_106(lookahead, eof)
      [] lex_state = 107 -> ts_lex_107(lookahead, eof)
      [] lex_state = 108 -> ts_lex_108(lookahead, eof)
      [] lex_state = 109 -> ts_lex_109(lookahead, eof)
      [] lex_state = 110 -> ts_lex_110(lookahead, eof)
      [] lex_state = 111 -> ts_lex_111(lookahead, eof)
      [] lex_state = 112 -> ts_lex_112(lookahead, eof)
      [] lex_state = 113 -> ts_lex_113(lookahead, eof)
      [] lex_state = 114 -> ts_lex_114(lookahead, eof)
      [] lex_state = 115 -> ts_lex_115(lookahead, eof)
      [] lex_state = 116 -> ts_lex_116(lookahead, eof)
      [] lex_state = 117 -> ts_lex_117(lookahead, eof)
      [] lex_state = 118 -> ts_lex_118(lookahead, eof)
      [] lex_state = 119 -> ts_lex_119(lookahead, eof)
      [] lex_state = 120 -> ts_lex_120(lookahead, eof)
      [] lex_state = 121 -> ts_lex_121(lookahead, eof)
      [] lex_state = 122 -> ts_lex_122(lookahead, eof)
      [] lex_state = 123 -> ts_lex_123(lookahead, eof)
      [] lex_state = 124 -> ts_lex_124(lookahead, eof)
      [] lex_state = 125 -> ts_lex_125(lookahead, eof)
      [] lex_state = 126 -> ts_lex_126(lookahead, eof)
      [] lex_state = 127 -> ts_lex_127(lookahead, eof)
      [] lex_state = 128 -> ts_lex_128(lookahead, eof)
      [] OTHER -> END_STATE

(***************************************************************************)
(* The lexer as ts_lex sees it: lookahead is 0 at the end of the input.    *)
(***************************************************************************)
(***************************************************************************)
(* The parse table.  Non-terminal symbols, the table of the large states   *)
(* 0 to 3, the small table of state 4, and the action entries.  As in the  *)
(* source, a cell of a terminal column is the index of an action entry, a  *)
(* cell of a non-terminal column is a state, and a cell that is not        *)
(* written is 0.                                                           *)
(***************************************************************************)
sym_source_file == 8
sym__item == 9
aux_sym_source_file_repeat1 == 10

LARGE_STATE_COUNT == 4

STATE_ID(id) == id

ACTIONS_ID(id) == id

SHIFT(state_value) ==
    [type |-> "SHIFT", state |-> state_value, repetition |-> FALSE,
     symbol |-> ts_builtin_sym_end, child_count |-> 0]

SHIFT_REPEAT(state_value) ==
    [type |-> "SHIFT", state |-> state_value, repetition |-> TRUE,
     symbol |-> ts_builtin_sym_end, child_count |-> 0]

REDUCE(symbol_name, children) ==
    [type |-> "REDUCE", state |-> 0, repetition |-> FALSE,
     symbol |-> symbol_name, child_count |-> children]

RECOVER ==
    [type |-> "RECOVER", state |-> 0, repetition |-> FALSE,
     symbol |-> ts_builtin_sym_end, child_count |-> 0]

ACCEPT_INPUT ==
    [type |-> "ACCEPT", state |-> 0, repetition |-> FALSE,
     symbol |-> ts_builtin_sym_end, child_count |-> 0]

ts_parse_table(parse_state, symbol) ==
    CASE parse_state = 0 ->
            IF symbol \in ts_builtin_sym_end..sym_identifier THEN ACTIONS_ID(1)
            ELSE 0
      [] parse_state = 1 ->
            CASE symbol = sym_source_file -> STATE_ID(4)
              [] symbol = sym__item -> STATE_ID(2)
              [] symbol = aux_sym_source_file_repeat1 -> STATE_ID(2)
              [] symbol = ts_builtin_sym_end -> ACTIONS_ID(3)
              [] symbol \in {sym_comment, sym_string, sym_number} -> ACTIONS_ID(5)
              [] symbol \in {sym_keyword, sym_operator, sym_punctuation,
                             sym_identifier} -> ACTIONS_ID(7)
              [] OTHER -> 0
      [] parse_state = 2 ->
            CASE symbol = sym__item -> STATE_ID(3)
              [] symbol = aux_sym_source_file_repeat1 -> STATE_ID(3)
              [] symbol = ts_builtin_sym_end -> ACTIONS_ID(9)
              [] symbol \in {sym_comment, sym_string, sym_number} -> ACTIONS_ID(11)
              [] symbol \in {sym_keyword, sym_operator, sym_punctuation,
                             sym_identifier} -> ACTIONS_ID(13)
              [] OTHER -> 0
      [] parse_state = 3 ->
            CASE symbol = sym__item -> STATE_ID(3)
              [] symbol = aux_sym_source_file_repeat1 -> STATE_ID(3)
              [] symbol = ts_builtin_sym_end -> ACTIONS_ID(15)
              [] symbol \in {sym_comment, sym_string, sym_number} -> ACTIONS_ID(17)
              [] symbol \in {sym_keyword, sym_operator, sym_punctuation,
                             sym_identifier} -> ACTIONS_ID(20)
              [] OTHER -> 0
      [] OTHER -> 0

\* state 4, the only small state: one group, of one symbol
\* Faulty variant of the small table: state 4 has no action on the end marker.
ts_small_parse_table_no_accept(parse_state, symbol) == 0

ts_small_parse_table(parse_state, symbol) ==
    IF parse_state = 4 /\ symbol = ts_builtin_sym_end THEN ACTIONS_ID(23) ELSE 0

\* Faulty variant of the action entries: entry 9 reduces no child, as entry 3.
ts_parse_actions_empty_file(index) ==
    CASE index = 0 -> <<>>
      [] index = 1 -> <<RECOVER>>
      [] index = 3 -> <<REDUCE(sym_source_file, 0)>>
      [] index = 5 -> <<SHIFT(2)>>
      [] index = 7 -> <<SHIFT(2)>>
      [] index = 9 -> <<REDUCE(sym_source_file, 0)>>
      [] index = 11 -> <<SHIFT(3)>>
      [] index = 13 -> <<SHIFT(3)>>
      [] index = 15 -> <<REDUCE(aux_sym_source_file_repeat1, 2)>>
      [] index = 17 ->
            <<REDUCE(aux_sym_source_file_repeat1, 2), SHIFT_REPEAT(3)>>
      [] index = 20 ->
            <<REDUCE(aux_sym_source_file_repeat1, 2), SHIFT_REPEAT(3)>>
      [] index = 23 -> <<ACCEPT_INPUT>>
      [] OTHER -> <<>>

ts_parse_actions(index) ==
    CASE index = 0 -> <<>>
      [] index = 1 -> <<RECOVER>>
      [] index = 3 -> <<REDUCE(sym_source_file, 0)>>
      [] index = 5 -> <<SHIFT(2)>>
      [] index = 7 -> <<SHIFT(2)>>
      [] index = 9 -> <<REDUCE(sym_source_file, 1)>>
      [] index = 11 -> <<SHIFT(3)>>
      [] index = 13 -> <<SHIFT(3)>>
      [] index = 15 -> <<REDUCE(aux_sym_source_file_repeat1, 2)>>
      [] index = 17 ->
            <<REDUCE(aux_sym_source_file_repeat1, 2), SHIFT_REPEAT(3)>>
      [] index = 20 ->
            <<REDUCE(aux_sym_source_file_repeat1, 2), SHIFT_REPEAT(3)>>
      [] index = 23 -> <<ACCEPT_INPUT>>
      [] OTHER -> <<>>

\* the cell of a state and a symbol, from the large or the small table
TableCell(parse_state, symbol) ==
    IF parse_state < LARGE_STATE_COUNT
    THEN ts_parse_table(parse_state, symbol)
    ELSE ts_small_parse_table(parse_state, symbol)

\* the actions of a state on a terminal symbol
TableActions(parse_state, symbol) ==
    LET entry == ts_parse_actions(TableCell(parse_state, symbol))
    IN  { entry[i] : i \in 1..Len(entry) }

\* the stack of a parse that has not begun: the start state 1, no subtree
StartStack == << [state |-> 1, symbol |-> ts_builtin_sym_end, leaves |-> <<>>] >>

Eof == position >= Len(input)

Lookahead == IF Eof THEN 0 ELSE input[position + 1]

Step == ts_lex(state, Lookahead, Eof)

(***************************************************************************)
(* Inputs: concatenations of at most n fragments drawn from a set F.       *)
(***************************************************************************)
RECURSIVE Flatten(_)
Flatten(ss) == IF ss = <<>> THEN <<>> ELSE Head(ss) \o Flatten(Tail(ss))

Inputs(F, n) == { Flatten(ss) : ss \in UNION { [1..k -> F] : k \in 0..n } }

InitOver(F, n) ==
    /\ input \in Inputs(F, n)
    /\ pc = "Scanning"
    /\ position = 0
    /\ state = 0
    /\ result = FALSE
    /\ result_symbol = ts_builtin_sym_end
    /\ scan_start = 0
    /\ token_start = 0
    /\ token_end = 0
    /\ tokens = <<>>
    /\ error = <<>>
    /\ parse_stack = StartStack

\* Every category of token: space, newline, quote, opener, closer, star, digit 1,
\* dot, letter a, the word if, minus, hash, bang, less-than, equals, NUL.
MaxFrags == 3

Fragments ==
    { <<32>>, <<10>>, <<34>>, <<40, 42>>, <<42, 41>>, <<42>>, <<49>>, <<46>>,
      <<97>>, <<105, 102>>, <<45>>, <<35>>, <<33>>, <<60>>, <<61>>, <<0>> }

Init == InitOver(Fragments, MaxFrags)

\* Sequences of tokens: space, quote, opener, closer, digit 1, dot, letter a,
\* minus, NUL.
MaxSeqFrags == 4

SeqFragments ==
    { <<32>>, <<34>>, <<40, 42>>, <<42, 41>>, <<49>>, <<46>>, <<97>>, <<45>>, <<0>> }

InitSeq == InitOver(SeqFragments, MaxSeqFrags)

\* Whitespace: space, tab, newline, carriage return, letter a, dot.
MaxWhitespaceFrags == 5

WhitespaceFragments == { <<32>>, <<9>>, <<10>>, <<13>>, <<97>>, <<46>> }

InitWhitespace == InitOver(WhitespaceFragments, MaxWhitespaceFrags)

\* Numbers: digits 1 and 2, dot, space, letter a.
MaxNumberFrags == 6

NumberFragments == { <<49>>, <<50>>, <<46>>, <<32>>, <<97>> }

InitNumber == InitOver(NumberFragments, MaxNumberFrags)

\* Block comments: opener, closer, star, close parenthesis, space, letter a, NUL.
MaxCommentFrags == 5

CommentFragments ==
    { <<40, 42>>, <<42, 41>>, <<42>>, <<41>>, <<32>>, <<97>>, <<0>> }

InitComment == InitOver(CommentFragments, MaxCommentFrags)

\* Strings: quote, letter a, the letters abc, space, backslash, newline, NUL.
MaxStringFrags == 5

StringFragments == { <<34>>, <<97>>, <<97, 98, 99>>, <<32>>, <<92>>, <<10>>, <<0>> }

InitString == InitOver(StringFragments, MaxStringFrags)

(***************************************************************************)
(* One call of the scanner starts in the lex state that ts_lex_modes gives *)
(* for the parse state on top of the stack: state 0 for every parse state. *)
(***************************************************************************)
TopState == parse_stack[Len(parse_stack)].state

\* Faulty variant of ts_lex_modes: after two items the scanner starts in the
\* state that reads words.
ts_lex_modes_by_state(parse_state) ==
    [lex_state |-> IF parse_state = 3 THEN 128 ELSE 0]

ts_lex_modes(parse_state) == [lex_state |-> 0]

StartScan ==
    /\ pc = "Scanning"
    /\ pc' = "Lexing"
    /\ state' = ts_lex_modes(TopState).lex_state
    /\ result' = FALSE
    /\ scan_start' = position
    /\ token_start' = position
    /\ token_end' = position
    /\ UNCHANGED <<input, position, result_symbol, tokens, error, parse_stack>>

(***************************************************************************)
(* ACCEPT_TOKEN at the head of a case: result, result_symbol, mark_end.    *)
(***************************************************************************)
\* Faulty variant of Accept: the end is marked where the token starts.
AcceptMarksStart(s) ==
    IF s.accepts
    THEN /\ result' = TRUE
         /\ result_symbol' = s.symbol
         /\ token_end' = token_start
    ELSE UNCHANGED <<result, result_symbol, token_end>>

\* Faulty variant of Accept: the first accepting state of a scan is the one
\* recorded.
AcceptFirst(s) ==
    IF s.accepts /\ ~result
    THEN /\ result' = TRUE
         /\ result_symbol' = s.symbol
         /\ token_end' = position
    ELSE UNCHANGED <<result, result_symbol, token_end>>

Accept(s) ==
    IF s.accepts
    THEN /\ result' = TRUE
         /\ result_symbol' = s.symbol
         /\ token_end' = position
    ELSE UNCHANGED <<result, result_symbol, token_end>>

(***************************************************************************)
(* One iteration of ts_lex's loop ending in ADVANCE, SKIP or END_STATE.    *)
(***************************************************************************)
LexAdvance ==
    /\ pc = "Lexing"
    /\ Step.op = "ADVANCE"
    /\ Accept(Step)
    /\ state' = Step.to
    /\ position' = IF Eof THEN position ELSE position + 1
    /\ UNCHANGED <<input, pc, scan_start, token_start, tokens, error, parse_stack>>

LexSkip ==
    /\ pc = "Lexing"
    /\ Step.op = "SKIP"
    /\ Accept(Step)
    /\ state' = Step.to
    /\ position' = IF Eof THEN position ELSE position + 1
    /\ token_start' = position'
    /\ UNCHANGED <<input, pc, scan_start, tokens, error, parse_stack>>

\* Faulty variant of LexEndState: the scan returns whether the state it stops
\* in accepts, so a scan that accepted and then read on fails with its end
\* already marked.
LexEndStateForgets ==
    /\ pc = "Lexing"
    /\ Step.op = "END_STATE"
    /\ result' = Step.accepts
    /\ result_symbol' = IF Step.accepts THEN Step.symbol ELSE result_symbol
    /\ token_end' = IF Step.accepts THEN position ELSE token_end
    /\ pc' = "Returned"
    /\ UNCHANGED <<input, position, state, scan_start, token_start, tokens, error, parse_stack>>

LexEndState ==
    /\ pc = "Lexing"
    /\ Step.op = "END_STATE"
    /\ Accept(Step)
    /\ pc' = "Returned"
    /\ UNCHANGED <<input, position, state, scan_start, token_start, tokens, error, parse_stack>>

(***************************************************************************)
(* The item sequencer: what happens to the scan's result.                  *)
(***************************************************************************)
Token(sym) ==
    [symbol |-> sym, scan_start |-> scan_start, start |-> token_start, end |-> token_end]

EmitToken ==
    /\ pc = "Returned"
    /\ result
    /\ result_symbol # ts_builtin_sym_end
    /\ tokens' = Append(tokens, Token(result_symbol))
    /\ position' = token_end
    /\ pc' = "Scanning"
    /\ UNCHANGED <<input, state, result, result_symbol, scan_start, token_start,
                   token_end, error, parse_stack>>

EmitEnd ==
    /\ pc = "Returned"
    /\ result
    /\ result_symbol = ts_builtin_sym_end
    /\ tokens' = Append(tokens, Token(result_symbol))
    /\ position' = token_end
    /\ pc' = "Done"
    /\ UNCHANGED <<input, state, result, result_symbol, scan_start, token_start,
                   token_end, error, parse_stack>>

\* Faulty variant: the failed scan is passed over and scanning goes on.
ScanResync ==
    /\ pc = "Returned"
    /\ ~result
    /\ error' = <<token_start>>
    /\ position' = IF token_start < Len(input) THEN token_start + 1 ELSE token_start
    /\ pc' = IF token_start < Len(input) THEN "Scanning" ELSE "Done"
    /\ UNCHANGED <<input, state, result, result_symbol, scan_start, token_start,
                   token_end, tokens, parse_stack>>

ScanFail ==
    /\ pc = "Returned"
    /\ ~result
    /\ error' = <<token_start>>
    /\ position' = scan_start
    /\ pc' = "Done"
    /\ UNCHANGED <<input, state, result, result_symbol, scan_start, token_start,
                   token_end, tokens, parse_stack>>

Next ==
    \/ StartScan
    \/ LexAdvance
    \/ LexSkip
    \/ LexEndState
    \/ EmitToken
    \/ EmitEnd
    \/ ScanFail

Spec == Init /\ [][Next]_vars

SpecSeq == InitSeq /\ [][Next]_vars

SpecWhitespace == InitWhitespace /\ [][Next]_vars

SpecNumber == InitNumber /\ [][Next]_vars

SpecComment == InitComment /\ [][Next]_vars

SpecString == InitString /\ [][Next]_vars

(***************************************************************************)
(* Vocabulary of the properties: lexemes and the token patterns.           *)
(***************************************************************************)
Lexeme(a, b) == SubSeq(input, a + 1, b)

IsDigit(c) == 48 <= c /\ c <= 57

IsLetter(c) == (65 <= c /\ c <= 90) \/ (97 <= c /\ c <= 122)

IsWordStart(c) == IsLetter(c) \/ c = 95

IsWordChar(c) == IsWordStart(c) \/ IsDigit(c)

\* space, tab, newline, carriage return
WhitespaceChars == {32, 9, 10, 13}

\* ' ( ) , : [ ] { }
PunctuationChars == {39, 40, 41, 44, 58, 91, 93, 123, 125}

\* & * + - = ^ and the not, not-equal, less-or-equal, greater-or-equal signs
OperatorChars == {38, 42, 43, 45, 61, 94, 172, 8800, 8804, 8805}

\* / < >, operators alone or followed by =
CompoundStartChars == {47, 60, 62}

\* D+ ('.' D+)?
IsNumber(s) ==
    \E k \in 1..Len(s) :
        /\ \A i \in 1..k : IsDigit(s[i])
        /\ \/ k = Len(s)
           \/ /\ k + 1 < Len(s)
              /\ s[k + 1] = 46
              /\ \A i \in (k + 2)..Len(s) : IsDigit(s[i])

\* two minus signs or hash and bang, then anything up to a newline or a NUL
IsLineComment(s) ==
    /\ Len(s) >= 2
    /\ \/ (s[1] = 45 /\ s[2] = 45)
       \/ (s[1] = 35 /\ s[2] = 33)
    /\ \A i \in 3..Len(s) : s[i] # 10 /\ s[i] # 0

\* opener, a body without closer and without NUL, then closer
IsBlockComment(s) ==
    /\ Len(s) >= 4
    /\ s[1] = 40 /\ s[2] = 42
    /\ s[Len(s) - 1] = 42 /\ s[Len(s)] = 41
    /\ \A i \in 3..(Len(s) - 2) : ~(s[i] = 42 /\ s[i + 1] = 41)
    /\ \A i \in 3..Len(s) : s[i] # 0

\* a quote, a body without quote and without NUL, a quote
IsString(s) ==
    /\ Len(s) >= 2
    /\ s[1] = 34 /\ s[Len(s)] = 34
    /\ \A i \in 2..(Len(s) - 1) : s[i] # 34 /\ s[i] # 0

IsWord(s) ==
    /\ Len(s) >= 1
    /\ IsWordStart(s[1])
    /\ \A i \in 2..Len(s) : IsWordChar(s[i])

IsOperator(s) ==
    \/ Len(s) = 1 /\ s[1] \in OperatorChars \cup CompoundStartChars
    \/ Len(s) = 2 /\ s[1] \in CompoundStartChars /\ s[2] = 61

IsPunctuation(s) == Len(s) = 1 /\ s[1] \in PunctuationChars

\* the categories whose pattern the whole of s matches
Categories(s) ==
    (IF IsLineComment(s) \/ IsBlockComment(s) THEN {sym_comment} ELSE {})
    \cup (IF IsString(s) THEN {sym_string} ELSE {})
    \cup (IF IsNumber(s) THEN {sym_number} ELSE {})
    \cup (IF IsWord(s) THEN {sym_keyword, sym_identifier} ELSE {})
    \cup (IF IsOperator(s) THEN {sym_operator} ELSE {})
    \cup (IF IsPunctuation(s) THEN {sym_punctuation} ELSE {})

\* lengths of the non-empty prefixes at offset a that match some pattern
MatchLengths(a) ==
    { n \in 1..(Len(input) - a) : Categories(Lexeme(a, a + n)) # {} }

Max(S) == CHOOSE x \in S : \A y \in S : y <= x

\* a scan has returned and the sequencer has not yet acted on it
Returned == pc = "Returned"

Reassembled ==
    Flatten([i \in 1..Len(tokens) |->
                Lexeme(tokens[i].scan_start, tokens[i].start)
                    \o Lexeme(tokens[i].start, tokens[i].end)])

Tokenized == pc = "Done" /\ error = <<>>

C2_RoundTrip ==
    /\ \A i \in 1..Len(tokens) :
        /\ tokens[i].scan_start = (IF i = 1 THEN 0 ELSE tokens[i - 1].end)
        /\ tokens[i].scan_start <= tokens[i].start
        /\ tokens[i].start <= tokens[i].end
        /\ tokens[i].end <= Len(input)
    /\ Tokenized => Reassembled = input

\* a complete tokenization of three or more tokens, one after skipped input
C2_Witness ==
    /\ Tokenized
    /\ Len(tokens) >= 3
    /\ \E i \in 1..Len(tokens) : tokens[i].scan_start < tokens[i].start

(***************************************************************************)
(* C3: no zero-width tokens.  A scan that returns a token other than the   *)
(* end marker has consumed at least one character; the end marker has      *)
(* width zero and is returned only at the end of the input.  The same      *)
(* holds of every token of the sequence.                                   *)
(***************************************************************************)
WidthOk(sym, a, b) ==
    IF sym = ts_builtin_sym_end THEN a = Len(input) /\ b = a ELSE a < b

C3_NoZeroWidth ==
    /\ (Returned /\ result) => WidthOk(result_symbol, token_start, token_end)
    /\ \A i \in 1..Len(tokens) :
        WidthOk(tokens[i].symbol, tokens[i].start, tokens[i].end)

\* the end marker is returned after other tokens were emitted
C3_Witness ==
    /\ Returned /\ result /\ result_symbol = ts_builtin_sym_end
    /\ Len(tokens) >= 2

(***************************************************************************)
(* C4: in the emitted sequence the spans do not overlap and the start      *)
(* offsets strictly increase.                                              *)
(***************************************************************************)
C4_SpansIncrease ==
    \A i, j \in 1..Len(tokens) :
        i < j => /\ tokens[i].start < tokens[j].start
                 /\ tokens[i].end <= tokens[j].start

\* three tokens, two of them adjacent and two of them apart
C4_Witness ==
    /\ Len(tokens) >= 3
    /\ tokens[1].end = tokens[2].start
    /\ tokens[2].end < tokens[3].start

(***************************************************************************)
(* C5: whitespace.  When a scan returns, the character at the token's      *)
(* start is not a whitespace character (the whitespace at the cursor was   *)
(* skipped); no emitted token begins with one; an input of whitespace      *)
(* only (the empty input too) is tokenized as the end marker alone.        *)
(***************************************************************************)
AllWhitespace(s) == \A i \in 1..Len(s) : s[i] \in WhitespaceChars

C5_Whitespace ==
    /\ (Returned /\ token_start < Len(input)) =>
        input[token_start + 1] \notin WhitespaceChars
    /\ \A i \in 1..Len(tokens) :
        tokens[i].start < tokens[i].end =>
            input[tokens[i].start + 1] \notin WhitespaceChars
    /\ (pc = "Done" /\ AllWhitespace(input)) =>
        /\ error = <<>>
        /\ Len(tokens) = 1
        /\ tokens[1].symbol = ts_builtin_sym_end

\* an input of the four whitespace characters has been tokenized
C5_Witness ==
    /\ pc = "Done"
    /\ AllWhitespace(input)
    /\ {input[i] : i \in 1..Len(input)} = WhitespaceChars

(***************************************************************************)
(* C6: numbers.  A scan whose token starts at a digit returns a number     *)
(* covering the longest prefix of the form D+ ('.' D+)?; a number token    *)
(* has that form, so it never ends with a dot.                             *)
(***************************************************************************)
AtDigit(a) == a < Len(input) /\ IsDigit(input[a + 1])

NumberLengths(a) ==
    { n \in 1..(Len(input) - a) : IsNumber(Lexeme(a, a + n)) }

C6_Number ==
    /\ (Returned /\ AtDigit(token_start)) =>
        /\ result
        /\ result_symbol = sym_number
        /\ token_end - token_start = Max(NumberLengths(token_start))
    /\ (Returned /\ result /\ result_symbol = sym_number) =>
        /\ IsNumber(Lexeme(token_start, token_end))
        /\ input[token_end] # 46
    /\ \A i \in 1..Len(tokens) :
        tokens[i].symbol = sym_number =>
            /\ IsNumber(Lexeme(tokens[i].start, tokens[i].end))
            /\ input[tokens[i].end] # 46

\* a number with a fraction is returned in front of a second dot
C6_Witness ==
    /\ Returned /\ result /\ result_symbol = sym_number
    /\ \E i \in (token_start + 1)..token_end : input[i] = 46
    /\ token_end < Len(input)
    /\ input[token_end + 1] = 46

(***************************************************************************)
(* C7: digits, then a dot that no digit follows.  The number covers the    *)
(* digits only.  As claimed, the next scan, which starts at the dot,       *)
(* returns a punctuation or operator token (C7_DotIsToken); as the code    *)
(* has it, that scan fails and returns no token (C7_DotFails).             *)
(***************************************************************************)
DigitRun(a) ==
    Max({ n \in 1..(Len(input) - a) : \A i \in (a + 1)..(a + n) : IsDigit(input[i]) })

BareDotAfterDigits(a) ==
    /\ AtDigit(a)
    /\ a + DigitRun(a) < Len(input)
    /\ input[a + DigitRun(a) + 1] = 46
    /\ a + DigitRun(a) + 1 < Len(input) => ~IsDigit(input[a + DigitRun(a) + 2])

DigitsOnly ==
    (Returned /\ BareDotAfterDigits(token_start)) =>
        /\ result
        /\ result_symbol = sym_number
        /\ token_end = token_start + DigitRun(token_start)

\* the scan that follows a number token and starts at a dot has returned
ReturnedAtDotAfterNumber ==
    /\ Returned
    /\ Len(tokens) >= 1
    /\ tokens[Len(tokens)].symbol = sym_number
    /\ scan_start = tokens[Len(tokens)].end
    /\ token_start = scan_start
    /\ token_start < Len(input)
    /\ input[token_start + 1] = 46

C7_DotIsToken ==
    /\ DigitsOnly
    /\ ReturnedAtDotAfterNumber =>
        (result /\ result_symbol \in {sym_punctuation, sym_operator})

C7_DotFails ==
    /\ DigitsOnly
    /\ ReturnedAtDotAfterNumber => ~result

\* the scan at the dot that follows a number of two digits has failed
C7_Witness ==
    /\ ReturnedAtDotAfterNumber
    /\ ~result
    /\ tokens[Len(tokens)].end - tokens[Len(tokens)].start >= 2

(***************************************************************************)
(* C8: block comments do not nest.  A scan whose token starts at an        *)
(* opener returns a comment only if a closer follows the opener, and the   *)
(* comment then ends with the first such closer, whatever openers lie in   *)
(* between; it does return a comment when no NUL stands before that        *)
(* closer.  The scan after the comment starts at the comment's end.        *)
(***************************************************************************)
AtOpener(a) == a + 2 <= Len(input) /\ input[a + 1] = 40 /\ input[a + 2] = 42

\* offsets of the closers that begin after the opener at offset a
Closers(a) ==
    { j \in (a + 2)..(Len(input) - 2) : input[j + 1] = 42 /\ input[j + 2] = 41 }

Min(S) == CHOOSE x \in S : \A y \in S : x <= y

FirstCloserEnd(a) == Min(Closers(a)) + 2

NulIn(s) == \E i \in 1..Len(s) : s[i] = 0

C8_NoNesting ==
    /\ (Returned /\ AtOpener(token_start)) =>
        /\ (result /\ result_symbol = sym_comment) =>
            /\ Closers(token_start) # {}
            /\ token_end = FirstCloserEnd(token_start)
        /\ ( /\ Closers(token_start) # {}
             /\ ~NulIn(Lexeme(token_start, FirstCloserEnd(token_start))) ) =>
            (result /\ result_symbol = sym_comment)
    /\ \A i \in 1..Len(tokens) :
        (tokens[i].symbol = sym_comment /\ AtOpener(tokens[i].start)) =>
            /\ Closers(tokens[i].start) # {}
            /\ tokens[i].end = FirstCloserEnd(tokens[i].start)
            /\ i < Len(tokens) => tokens[i + 1].scan_start = tokens[i].end

\* a comment with an opener inside it is returned in front of a second closer
C8_Witness ==
    /\ Returned /\ result /\ result_symbol = sym_comment
    /\ AtOpener(token_start)
    /\ Cardinality(Closers(token_start)) >= 2
    /\ \E j \in (token_start + 2)..(token_end - 4) : AtOpener(j)

(***************************************************************************)
(* C9: an opener that no closer follows.  As claimed, the scan returns no  *)
(* token (C9_OpenCommentFails); as the code has it, the scan returns the   *)
(* open parenthesis as a punctuation token of length 1 and the next token  *)
(* is the star, an operator (C9_OpenCommentIsParenthesis).                 *)
(***************************************************************************)
ReturnedAtOpenComment ==
    /\ Returned
    /\ AtOpener(token_start)
    /\ Closers(token_start) = {}

AtOpenString(a) ==
    /\ a < Len(input)
    /\ input[a + 1] = 34
    /\ \A i \in (a + 2)..Len(input) : input[i] # 34

C10_OpenString ==
    /\ (Returned /\ AtOpenString(token_start)) => ~result
    /\ (pc = "Done" /\ AtOpenString(token_start)) =>
        /\ error = <<token_start>>
        /\ \A i \in 1..Len(tokens) : tokens[i].end <= token_start
    /\ (pc = "Done" /\ input = <<34, 97, 98, 99>>) =>
        /\ error = <<0>>
        /\ tokens = <<>>

\* the input of a quote and the letters abc has been tokenized
C10_Witness == pc = "Done" /\ input = <<34, 97, 98, 99>>

(***************************************************************************)
(* C11: a string token starts at a quote and ends with the very next       *)
(* quote; a backslash in front of that quote does not keep it from         *)
(* closing the string.  As claimed, every character may stand between the  *)
(* two quotes (C11_AnyCharacter); as the code has it, every character but  *)
(* NUL may: the scan of a string whose body holds a NUL returns no token   *)
(* (C11_NoEscapes).                                                        *)
(***************************************************************************)
\* offsets of the quotes after the quote at offset a
LaterQuotes(a) == { j \in (a + 1)..(Len(input) - 1) : input[j + 1] = 34 }

AtClosedString(a) ==
    /\ a < Len(input)
    /\ input[a + 1] = 34
    /\ LaterQuotes(a) # {}

NextQuoteEnd(a) == Min(LaterQuotes(a)) + 1

C11_AnyCharacter ==
    (Returned /\ AtClosedString(token_start)) =>
        /\ result
        /\ result_symbol = sym_string
        /\ token_end = NextQuoteEnd(token_start)

C11_NoEscapes ==
    /\ (Returned /\ AtClosedString(token_start)) =>
        IF NulIn(Lexeme(token_start, NextQuoteEnd(token_start)))
        THEN ~result
        ELSE /\ result
             /\ result_symbol = sym_string
             /\ token_end = NextQuoteEnd(token_start)
    /\ \A i \in 1..Len(tokens) :
        tokens[i].symbol = sym_string =>
            /\ AtClosedString(tokens[i].start)
            /\ tokens[i].end = NextQuoteEnd(tokens[i].start)

\* a string with a newline in it and a backslash in front of its closing
\* quote is returned, and a further quote follows it
C11_Witness ==
    /\ Returned /\ result /\ result_symbol = sym_string
    /\ token_end >= token_start + 4
    /\ input[token_end - 1] = 92
    /\ \E i \in (token_start + 2)..(token_end - 1) : input[i] = 10
    /\ LaterQuotes(token_end - 1) # {}

(***************************************************************************)
(* C12: line comments.  A scan whose token starts with two hyphens or      *)
(* with a hash and an exclamation mark returns one comment; two adjacent   *)
(* hyphens are never two operator tokens; the input of two hyphens, a      *)
(* space and the word hello is one comment over the whole input.  As       *)
(* claimed, the comment ends in front of the next newline or at the end    *)
(* of the input (C12_EndOfLine); as the code has it, a NUL ends the        *)
(* comment as a newline does, and a carriage return does not end it        *)
(* (C12_LineComment).                                                      *)
(***************************************************************************)
MaxLineFrags == 4

LineFragments ==
    { <<45>>, <<45, 45>>, <<35, 33>>, <<35>>, <<10>>, <<13>>, <<97>>,
      <<32, 104, 101, 108, 108, 111>>, <<0>> }

InitLine == InitOver(LineFragments, MaxLineFrags)

SpecLine == InitLine /\ [][Next]_vars

AtLineOpener(a) ==
    /\ a + 2 <= Len(input)
    /\ \/ input[a + 1] = 45 /\ input[a + 2] = 45
       \/ input[a + 1] = 35 /\ input[a + 2] = 33

\* offset of the first character from the set S after a line opener at
\* offset a, or the length of the input when there is none
LineStop(a, S) ==
    Min({ j \in (a + 2)..(Len(input) - 1) : input[j + 1] \in S }
            \cup {Len(input)})

IsHyphenToken(t) ==
    t.symbol = sym_operator /\ Lexeme(t.start, t.end) = <<45>>

NoHyphenPair ==
    \A i \in 1..(Len(tokens) - 1) :
        ~ ( /\ IsHyphenToken(tokens[i])
            /\ IsHyphenToken(tokens[i + 1])
            /\ tokens[i + 1].start = tokens[i].end )

HelloComment == <<45, 45, 32, 104, 101, 108, 108, 111>>

HelloTokens ==
    (pc = "Done" /\ input = HelloComment) =>
        /\ error = <<>>
        /\ Len(tokens) = 2
        /\ tokens[1].symbol = sym_comment
        /\ tokens[1].start = 0 /\ tokens[1].end = 8
        /\ tokens[2].symbol = ts_builtin_sym_end

C12_EndOfLine ==
    /\ (Returned /\ AtLineOpener(token_start)) =>
        /\ result
        /\ result_symbol = sym_comment
        /\ token_end = LineStop(token_start, {10})
    /\ NoHyphenPair
    /\ HelloTokens

C12_LineComment ==
    /\ (Returned /\ AtLineOpener(token_start)) =>
        /\ result
        /\ result_symbol = sym_comment
        /\ token_end = LineStop(token_start, {10, 0})
    /\ NoHyphenPair
    /\ HelloTokens

\* a comment that holds a carriage return has been returned in front of a
\* newline
C12_Witness ==
    /\ Returned /\ result /\ result_symbol = sym_comment
    /\ AtLineOpener(token_start)
    /\ token_end < Len(input) /\ input[token_end + 1] = 10
    /\ \E i \in (token_start + 3)..token_end : input[i] = 13

(***************************************************************************)
(* C13: the texts of operator tokens.  As claimed, the text of every       *)
(* operator token is one of the characters ampersand, plus, hyphen,        *)
(* equals, caret, not sign, not equal, less or equal, greater or equal,    *)
(* or one of the compounds slash equals, less equals, greater equals       *)
(* (C13_ClaimedTexts).  As the code has it, the star, the slash, the less  *)
(* than sign and the greater than sign are operator tokens on their own    *)
(* as well, and nothing else is (C13_OperatorTexts); a scan that starts    *)
(* at one of these characters, two hyphens excepted, returns an operator.  *)
(***************************************************************************)
MaxOperatorFrags == 3

OperatorFragments ==
    { <<38>>, <<42>>, <<43>>, <<45>>, <<61>>, <<94>>, <<172>>, <<8800>>,
      <<8804>>, <<8805>>, <<47>>, <<60>>, <<62>>, <<32>>, <<46>> }

InitOperator == InitOver(OperatorFragments, MaxOperatorFrags)

SpecOperator == InitOperator /\ [][Next]_vars

ClaimedOperatorTexts ==
    { <<c>> : c \in {38, 43, 45, 61, 94, 172, 8800, 8804, 8805} }
        \cup { <<c, 61>> : c \in CompoundStartChars }

OperatorTexts ==
    { <<c>> : c \in OperatorChars \cup CompoundStartChars }
        \cup { <<c, 61>> : c \in CompoundStartChars }

\* the texts of the operator tokens emitted so far and of the one returned
OperatorTextsSeen ==
    { Lexeme(tokens[i].start, tokens[i].end) :
        i \in { j \in 1..Len(tokens) : tokens[j].symbol = sym_operator } }
    \cup (IF Returned /\ result /\ result_symbol = sym_operator
          THEN {Lexeme(token_start, token_end)} ELSE {})

MaxCompoundFrags == 4

CompoundFragments ==
    { <<49, 50, 46, 53, 32, 102, 111, 111, 32>>, <<60>>, <<61>>, <<62>>,
      <<47>>, <<32, 51>>, <<32>>, <<46>> }

InitCompound == InitOver(CompoundFragments, MaxCompoundFrags)

SpecCompound == InitCompound /\ [][Next]_vars

AtCompound(a) ==
    /\ a + 2 <= Len(input)
    /\ input[a + 1] \in CompoundStartChars
    /\ input[a + 2] = 61

\* kind, start and end of each token emitted so far
Spans == [ i \in 1..Len(tokens) |->
            <<tokens[i].symbol, tokens[i].start, tokens[i].end>> ]

ComparisonInput == <<49, 50, 46, 53, 32, 102, 111, 111, 32, 60, 61, 32, 51>>

C14_Compound ==
    /\ (Returned /\ AtCompound(token_start)) =>
        /\ result
        /\ result_symbol = sym_operator
        /\ token_end = token_start + 2
    /\ (pc = "Done" /\ input = ComparisonInput) =>
        /\ error = <<>>
        /\ Spans = << <<sym_number, 0, 4>>, <<sym_identifier, 5, 8>>,
                      <<sym_operator, 9, 11>>, <<sym_number, 12, 13>>,
                      <<ts_builtin_sym_end, 13, 13>> >>

\* the example input has been tokenized
C14_Witness ==
    /\ pc = "Done" /\ input = ComparisonInput
    /\ \E i \in 1..Len(tokens) : AtCompound(tokens[i].start)

(***************************************************************************)
(* C15: punctuation.  Every punctuation token has length 1 and is one of   *)
(* the nine punctuation characters.  A scan whose token starts at one of   *)
(* these characters returns it as a punctuation token, except at an open   *)
(* parenthesis followed by a star: there the block comment is returned     *)
(* when it can be completed, that is when a closer follows with no NUL in  *)
(* front of it.                                                            *)
(***************************************************************************)
MaxPunctuationFrags == 3

PunctuationFragments ==
    { <<39>>, <<40>>, <<41>>, <<44>>, <<58>>, <<91>>, <<93>>, <<123>>,
      <<125>>, <<42>>, <<40, 42>>, <<42, 41>>, <<32>>, <<46>>, <<0>> }

InitPunctuation == InitOver(PunctuationFragments, MaxPunctuationFrags)

SpecPunctuation == InitPunctuation /\ [][Next]_vars

IsPunctuationSpan(a, b) ==
    /\ b = a + 1
    /\ input[a + 1] \in PunctuationChars

CommentCompletes(a) ==
    /\ AtOpener(a)
    /\ Closers(a) # {}
    /\ ~NulIn(Lexeme(a, FirstCloserEnd(a)))

C15_Punctuation ==
    /\ \A i \in 1..Len(tokens) :
        tokens[i].symbol = sym_punctuation =>
            IsPunctuationSpan(tokens[i].start, tokens[i].end)
    /\ (Returned /\ result /\ result_symbol = sym_punctuation) =>
        IsPunctuationSpan(token_start, token_end)
    /\ ( /\ Returned
         /\ token_start < Len(input)
         /\ input[token_start + 1] \in PunctuationChars ) =>
            /\ result
            /\ IF CommentCompletes(token_start)
               THEN /\ result_symbol = sym_comment
                    /\ token_end = FirstCloserEnd(token_start)
               ELSE /\ result_symbol = sym_punctuation
                    /\ token_end = token_start + 1

\* an open parenthesis with a star after it is returned as punctuation
\* after a completed comment was emitted
C15_Witness ==
    /\ Returned /\ result /\ result_symbol = sym_punctuation
    /\ AtOpener(token_start)
    /\ \E i \in 1..Len(tokens) : tokens[i].symbol = sym_comment

(***************************************************************************)
(* Words.  The keyword states 12 and 13 are reached, from state 0 and      *)
(* through letters of either case, by exactly these 49 words:              *)
(* additions, and, applescript, application, by, case, considering,        *)
(* contains, div, else, end, error, exit, false, framework, from,          *)
(* global, if, ignoring, in, is, it, local, me, missing, mod, not, of,     *)
(* on, or, property, repeat, result, return, script, scripting, set,       *)
(* tell, then, times, to, true, try, until, use, value, version, while,    *)
(* with                                                                    *)
(***************************************************************************)
Keywords ==
    { <<97, 100, 100, 105, 116, 105, 111, 110, 115>>, <<97, 110, 100>>,
      <<97, 112, 112, 108, 101, 115, 99, 114, 105, 112, 116>>,
      <<97, 112, 112, 108, 105, 99, 97, 116, 105, 111, 110>>, <<98, 121>>,
      <<99, 97, 115, 101>>,
      <<99, 111, 110, 115, 105, 100, 101, 114, 105, 110, 103>>,
      <<99, 111, 110, 116, 97, 105, 110, 115>>, <<100, 105, 118>>,
      <<101, 108, 115, 101>>, <<101, 110, 100>>, <<101, 114, 114, 111, 114>>,
      <<101, 120, 105, 116>>, <<102, 97, 108, 115, 101>>,
      <<102, 114, 97, 109, 101, 119, 111, 114, 107>>, <<102, 114, 111, 109>>,
      <<103, 108, 111, 98, 97, 108>>, <<105, 102>>,
      <<105, 103, 110, 111, 114, 105, 110, 103>>, <<105, 110>>, <<105, 115>>,
      <<105, 116>>, <<108, 111, 99, 97, 108>>, <<109, 101>>,
      <<109, 105, 115, 115, 105, 110, 103>>, <<109, 111, 100>>,
      <<110, 111, 116>>, <<111, 102>>, <<111, 110>>, <<111, 114>>,
      <<112, 114, 111, 112, 101, 114, 116, 121>>,
      <<114, 101, 112, 101, 97, 116>>, <<114, 101, 115, 117, 108, 116>>,
      <<114, 101, 116, 117, 114, 110>>, <<115, 99, 114, 105, 112, 116>>,
      <<115, 99, 114, 105, 112, 116, 105, 110, 103>>, <<115, 101, 116>>,
      <<116, 101, 108, 108>>, <<116, 104, 101, 110>>,
      <<116, 105, 109, 101, 115>>, <<116, 111>>, <<116, 114, 117, 101>>,
      <<116, 114, 121>>, <<117, 110, 116, 105, 108>>, <<117, 115, 101>>,
      <<118, 97, 108, 117, 101>>, <<118, 101, 114, 115, 105, 111, 110>>,
      <<119, 104, 105, 108, 101>>, <<119, 105, 116, 104>> }

Upper(c) == IF 97 <= c /\ c <= 122 THEN c - 32 ELSE c

Lower(c) == IF 65 <= c /\ c <= 90 THEN c + 32 ELSE c

ToUpper(s) == [ i \in 1..Len(s) |-> Upper(s[i]) ]

ToLower(s) == [ i \in 1..Len(s) |-> Lower(s[i]) ]

Capitalized(s) == [ i \in 1..Len(s) |-> IF i = 1 THEN Upper(s[i]) ELSE s[i] ]

Prefixes(w) == { SubSeq(w, 1, k) : k \in 1..Len(w) }

\* every prefix of every keyword, the word foo, an underscore, the letter x
WordHeads ==
    UNION { Prefixes(w) : w \in Keywords }
        \cup { <<102, 111, 111>>, <<95>>, <<120>> }

\* what may follow the head: the letter x, the digit 2, an underscore, a
\* space, a dot
MaxTailFrags == 2

TailFragments == { <<120>>, <<50>>, <<95>>, <<32>>, <<46>> }

WordInputs ==
    { h \o t :
        h \in UNION { {w, ToUpper(w), Capitalized(w)} : w \in WordHeads },
        t \in Inputs(TailFragments, MaxTailFrags) }

InitWord ==
    /\ input \in WordInputs
    /\ pc = "Scanning"
    /\ position = 0
    /\ state = 0
    /\ result = FALSE
    /\ result_symbol = ts_builtin_sym_end
    /\ scan_start = 0
    /\ token_start = 0
    /\ token_end = 0
    /\ tokens = <<>>
    /\ error = <<>>
    /\ parse_stack = StartStack

SpecWord == InitWord /\ [][Next]_vars

AtWord(a) == a < Len(input) /\ IsWordStart(input[a + 1])

\* end of the longest run of letters, digits and underscores from offset a
WordRunEnd(a) ==
    Min({ j \in a..(Len(input) - 1) : ~IsWordChar(input[j + 1]) }
            \cup {Len(input)})

WordRun(a) == Lexeme(a, WordRunEnd(a))

(***************************************************************************)
(* C16: the kind of a word.  A scan whose token starts at a letter or an   *)
(* underscore returns the whole run of letters, digits and underscores.    *)
(* As claimed, its kind is always identifier and the keyword kind is       *)
(* never returned (C16_NeverKeyword); as the code has it, the kind is      *)
(* keyword when the run, lower-cased, is one of the 49 keywords and        *)
(* identifier otherwise (C16_KeywordOrIdentifier).                         *)
(***************************************************************************)
C16_NeverKeyword ==
    /\ (Returned /\ AtWord(token_start)) =>
        /\ result
        /\ result_symbol = sym_identifier
    /\ (Returned /\ result) => result_symbol # sym_keyword

C16_KeywordOrIdentifier ==
    (Returned /\ AtWord(token_start)) =>
        /\ result
        /\ token_end = WordRunEnd(token_start)
        /\ result_symbol =
            IF ToLower(WordRun(token_start)) \in Keywords
            THEN sym_keyword
            ELSE sym_identifier

\* the word applescript, with a capital A, is returned as a keyword in front of
\* a space
C16_Witness ==
    /\ Returned /\ result /\ result_symbol = sym_keyword
    /\ token_end < Len(input) /\ input[token_end + 1] = 32
    /\ ToLower(Lexeme(token_start, token_end))
        = <<97, 112, 112, 108, 101, 115, 99, 114, 105, 112, 116>>
    /\ input[token_start + 1] = 65

(***************************************************************************)
(* One call of ts_lex as a function of the text and the offset: the loop   *)
(* of ts_lex run from state st at offset pos of the text s, acc holding    *)
(* the last accepted kind and end and the start of the token.              *)
(***************************************************************************)
RECURSIVE Lex(_, _, _, _)
Lex(s, st, pos, acc) ==
    LET at_eof == pos >= Len(s)
        ahead == IF at_eof THEN 0 ELSE s[pos + 1]
        step == ts_lex(st, ahead, at_eof)
        next_pos == IF at_eof THEN pos ELSE pos + 1
        marked == IF step.accepts
                  THEN [acc EXCEPT !.result = TRUE, !.symbol = step.symbol,
                                   !.end = pos]
                  ELSE acc
    IN  IF step.op = "ADVANCE" THEN Lex(s, step.to, next_pos, marked)
        ELSE IF step.op = "SKIP"
             THEN Lex(s, step.to, next_pos, [marked EXCEPT !.start = next_pos])
             ELSE marked

Scan(s, pos) ==
    Lex(s, 0, pos, [result |-> FALSE, symbol |-> ts_builtin_sym_end,
                    start |-> pos, end |-> pos])

(***************************************************************************)
(* C17: words are recognized without regard to case.  In every state of    *)
(* the lexer the transition on an upper-case letter is the transition on   *)
(* its lower-case letter; and the scan of a word returns the same kind     *)
(* and the same end when the text is put in upper case or in lower case.   *)
(***************************************************************************)
LexStates == 0..128

UpperCaseLetters == 65..90

CaseBlindStates ==
    \A s \in LexStates : \A c \in UpperCaseLetters :
        ts_lex(s, c, FALSE) = ts_lex(s, Lower(c), FALSE)

C17_CaseInsensitive ==
    /\ CaseBlindStates
    /\ (Returned /\ AtWord(token_start)) =>
        LET as_is == Scan(input, scan_start)
            upper == Scan(ToUpper(input), scan_start)
            lower == Scan(ToLower(input), scan_start)
        IN  /\ as_is = [result |-> result, symbol |-> result_symbol,
                        start |-> token_start, end |-> token_end]
            /\ upper = as_is
            /\ lower = as_is

\* a keyword of mixed case has been returned
C17_Witness ==
    /\ Returned /\ result /\ result_symbol = sym_keyword
    /\ token_end >= token_start + 2
    /\ input[token_start + 1] \in UpperCaseLetters
    /\ input[token_start + 2] \notin UpperCaseLetters

(***************************************************************************)
(* C18: identifiers.  A scan whose token starts at a run of letters,       *)
(* digits and underscores that begins with a letter or an underscore and   *)
(* is not a keyword returns one identifier covering the whole run.  The    *)
(* input Foo is tokenized as the identifier Foo, its capital kept, and     *)
(* the end marker.                                                         *)
(***************************************************************************)
FooInput == <<70, 111, 111>>

C18_Identifier ==
    /\ ( /\ Returned
         /\ AtWord(token_start)
         /\ ToLower(WordRun(token_start)) \notin Keywords ) =>
            /\ result
            /\ result_symbol = sym_identifier
            /\ token_end = WordRunEnd(token_start)
    /\ \A i \in 1..Len(tokens) :
        tokens[i].symbol = sym_identifier =>
            /\ AtWord(tokens[i].start)
            /\ tokens[i].end = WordRunEnd(tokens[i].start)
    /\ (pc = "Done" /\ input = FooInput) =>
        /\ error = <<>>
        /\ Spans = << <<sym_identifier, 0, 3>>, <<ts_builtin_sym_end, 3, 3>> >>
        /\ Lexeme(tokens[1].start, tokens[1].end) = FooInput

\* the input Foo has been tokenized
C18_Witness ==
    /\ pc = "Done" /\ input = FooInput
    /\ Len(tokens) = 2

(***************************************************************************)
(* C19: the input made of an opener, a, an opener, b, a closer, c and a    *)
(* closer, with single spaces between them.  The comment ends with the     *)
(* first closer and the identifier c follows.  As claimed, the scan at     *)
(* the star of the second closer then fails, a star outside a comment      *)
(* beginning no token (C19_StrayCloserFails); as the code has it, the      *)
(* star is an operator, the close parenthesis is punctuation and the       *)
(* tokenization ends without error (C19_StrayCloserTokens).                *)
(***************************************************************************)
MaxNestedFrags == 5

NestedFragments ==
    { <<40, 42, 32, 97, 32>>, <<40, 42, 32, 98, 32>>, <<42, 41>>,
      <<32, 99, 32>>, <<0>> }

InitNested == InitOver(NestedFragments, MaxNestedFrags)

SpecNested == InitNested /\ [][Next]_vars

NestedInput ==
    <<40, 42, 32, 97, 32, 40, 42, 32, 98, 32, 42, 41, 32, 99, 32, 42, 41>>

AtStar(a) == a < Len(input) /\ input[a + 1] = 42

RECURSIVE TokenizeFrom(_, _, _)
TokenizeFrom(s, pos, found) ==
    LET scanned == Scan(s, pos)
    IN  IF ~scanned.result
        THEN [tokens |-> found, error |-> <<scanned.start>>]
        ELSE IF scanned.symbol = ts_builtin_sym_end
             THEN [tokens |-> Append(found, scanned), error |-> <<>>]
             ELSE TokenizeFrom(s, scanned.end, Append(found, scanned))

Tokenize(s) == TokenizeFrom(s, 0, <<>>)

(***************************************************************************)
(* C20: tokenizing the token texts joined by single spaces.  As claimed,   *)
(* for every input tokenized without error the joined text is tokenized    *)
(* without error into as many tokens of each kind as the input             *)
(* (C20_Idempotent).  As the code has it, this holds when no line comment  *)
(* is followed by a further token: on the joined text, which has a space   *)
(* where the input had a newline, the line comment runs on over the        *)
(* tokens that follow it (C20_IdempotentWithoutLineComment).               *)
(***************************************************************************)
MaxRejoinFrags == 4

RejoinFragments ==
    { <<45, 45>>, <<10>>, <<97>>, <<32>>, <<40, 42>>, <<42, 41>>, <<34>>,
      <<46>>, <<60>>, <<61>> }

InitRejoin == InitOver(RejoinFragments, MaxRejoinFrags)

SpecRejoin == InitRejoin /\ [][Next]_vars

RECURSIVE JoinWithSpaces(_)
JoinWithSpaces(texts) ==
    IF texts = <<>> THEN <<>>
    ELSE IF Len(texts) = 1 THEN texts[1]
    ELSE texts[1] \o <<32>> \o JoinWithSpaces(Tail(texts))

\* the texts of the tokens, the empty text of the end marker last
Texts == [ i \in 1..Len(tokens) |-> Lexeme(tokens[i].start, tokens[i].end) ]

\* the texts of the tokens in front of the end marker
TextsBeforeEnd == SubSeq(Texts, 1, Len(tokens) - 1)

KindCount(ts, k) == Cardinality({ i \in 1..Len(ts) : ts[i].symbol = k })

SameKinds(ts, us) ==
    \A k \in ts_builtin_sym_end..sym_identifier :
        KindCount(ts, k) = KindCount(us, k)

\* the text is tokenized without error into the kinds of the tokens
KeepsKinds(text) ==
    LET again == Tokenize(text)
    IN  /\ again.error = <<>>
        /\ SameKinds(again.tokens, tokens)

IsLineCommentToken(t) == t.symbol = sym_comment /\ AtLineOpener(t.start)

\* a line comment is followed by a token other than the end marker
LineCommentInside ==
    \E i \in 1..(Len(tokens) - 2) : IsLineCommentToken(tokens[i])

C20_Idempotent ==
    Tokenized =>
        /\ KeepsKinds(JoinWithSpaces(Texts))
        /\ KeepsKinds(JoinWithSpaces(TextsBeforeEnd))

C20_IdempotentWithoutLineComment ==
    /\ (Tokenized /\ ~LineCommentInside) =>
        /\ KeepsKinds(JoinWithSpaces(Texts))
        /\ KeepsKinds(JoinWithSpaces(TextsBeforeEnd))
    /\ Tokenized =>
        LET again == Tokenize(input)
        IN  /\ again.error = <<>>
            /\ [ i \in 1..Len(again.tokens) |->
                    <<again.tokens[i].symbol, again.tokens[i].start,
                      again.tokens[i].end>> ] = Spans

\* an input of four tokens, a line comment the last of them and a block
\* comment among them, has been tokenized
C20_Witness ==
    /\ Tokenized /\ ~LineCommentInside
    /\ Len(tokens) = 5
    /\ IsLineCommentToken(tokens[4])
    /\ \E i \in 1..3 : tokens[i].symbol = sym_comment
    /\ JoinWithSpaces(TextsBeforeEnd) # input

(***************************************************************************)
(* The parser: the scanner's tokens driven through the parse table.  The   *)
(* token returned by ts_lex is the lookahead; an action of the table's     *)
(* entry for the state on top of the stack and that token is applied.  A   *)
(* shift consumes the token; a reduction keeps it.  An entry of two        *)
(* actions leaves the choice between them open.  Each stack element        *)
(* holds, as leaves, the tokens of its subtree in order.                   *)
(***************************************************************************)
HasLookahead == pc = "Returned" /\ result

LookaheadActions == TableActions(TopState, result_symbol)

Shifted(a) ==
    /\ parse_stack' = Append(parse_stack,
            [state |-> a.state, symbol |-> result_symbol,
             leaves |-> <<Token(result_symbol)>>])
    /\ tokens' = Append(tokens, Token(result_symbol))
    /\ position' = token_end
    /\ pc' = "Scanning"
    /\ UNCHANGED <<input, state, result, result_symbol, scan_start, token_start,
                   token_end, error>>

ParseShift ==
    /\ HasLookahead
    /\ \E a \in LookaheadActions :
        /\ a.type = "SHIFT"
        /\ ~a.repetition
        /\ Shifted(a)

ParseShiftRepeat ==
    /\ HasLookahead
    /\ \E a \in LookaheadActions :
        /\ a.type = "SHIFT"
        /\ a.repetition
        /\ Shifted(a)

RECURSIVE LeavesOf(_)
LeavesOf(elements) ==
    IF elements = <<>> THEN <<>>
    ELSE Head(elements).leaves \o LeavesOf(Tail(elements))

ParseReduce ==
    /\ HasLookahead
    /\ \E a \in LookaheadActions :
        /\ a.type = "REDUCE"
        /\ Len(parse_stack) > a.child_count
        /\ LET kept == SubSeq(parse_stack, 1, Len(parse_stack) - a.child_count)
               popped == SubSeq(parse_stack, Len(kept) + 1, Len(parse_stack))
           IN  parse_stack' = Append(kept,
                    [state |-> TableCell(kept[Len(kept)].state, a.symbol),
                     symbol |-> a.symbol,
                     leaves |-> LeavesOf(popped)])
    /\ UNCHANGED <<input, pc, position, state, result, result_symbol,
                   scan_start, token_start, token_end, tokens, error>>

ParseAccept ==
    /\ HasLookahead
    /\ \E a \in LookaheadActions : a.type = "ACCEPT"
    /\ tokens' = Append(tokens, Token(result_symbol))
    /\ position' = token_end
    /\ pc' = "Done"
    /\ UNCHANGED <<input, state, result, result_symbol, scan_start, token_start,
                   token_end, error, parse_stack>>

NextParse ==
    \/ StartScan
    \/ LexAdvance
    \/ LexSkip
    \/ LexEndState
    \/ ParseShift
    \/ ParseShiftRepeat
    \/ ParseReduce
    \/ ParseAccept
    \/ ScanFail

\* One text for each kind of token: an empty comment, an empty string, the
\* digit 1, the word if, a plus sign, a comma, the letter x; and a NUL.
MaxParseFrags == 4

ParseFragments ==
    { <<40, 42, 42, 41>>, <<34, 34>>, <<49, 32>>, <<105, 102, 32>>, <<43>>,
      <<44>>, <<120, 32>>, <<0>> }

InitParse == InitOver(ParseFragments, MaxParseFrags)

SpecParse == InitParse /\ [][NextParse]_vars

(***************************************************************************)
(* C21: the parse of a sequence of tokens.  Whatever token of the seven    *)
(* kinds, or the end marker, the scanner returns, the table's entry for    *)
(* it in the state on top of the stack is not empty and one of its actions *)
(* can be applied; the parse ends only by ACCEPT_INPUT or by a failed      *)
(* scan; and when it has ended by ACCEPT_INPUT the stack holds, above the  *)
(* start state, one source_file whose leaves are the tokens of the text    *)
(* in the order of the text: the tokens that the scans chained from        *)
(* offset 0 return, comments among them, none of them empty or starting    *)
(* with whitespace.                                                        *)
(***************************************************************************)
TokenKinds == sym_comment..sym_identifier

SpansOf(ts) == [ i \in 1..Len(ts) |-> <<ts[i].symbol, ts[i].start, ts[i].end>> ]

Accepted ==
    /\ pc = "Done"
    /\ error = <<>>
    /\ Len(parse_stack) = 2
    /\ parse_stack[1] = StartStack[1]
    /\ parse_stack[2].state = 4
    /\ parse_stack[2].symbol = sym_source_file

C21_ParseAccepts ==
    /\ HasLookahead =>
        /\ result_symbol \in TokenKinds \cup {ts_builtin_sym_end}
        /\ LookaheadActions # {}
        /\ \A a \in LookaheadActions : a.type # "RECOVER"
        /\ ENABLED (ParseShift \/ ParseShiftRepeat \/ ParseReduce \/ ParseAccept)
    /\ \A i \in 1..Len(parse_stack) : parse_stack[i].state \in 1..4
    /\ (pc = "Done" /\ error = <<>>) =>
        /\ Accepted
        /\ SpansOf(parse_stack[2].leaves) \o << <<ts_builtin_sym_end, Len(input), Len(input)>> >>
            = SpansOf(Tokenize(input).tokens)
        /\ \A i \in 1..Len(parse_stack[2].leaves) :
            LET leaf == parse_stack[2].leaves[i]
            IN  /\ leaf.symbol \in TokenKinds
                /\ leaf.start < leaf.end
                /\ input[leaf.start + 1] \notin WhitespaceChars

\* a text of four tokens, a comment first and a keyword after a number, has
\* been accepted
C21_Witness ==
    /\ Accepted
    /\ Len(parse_stack[2].leaves) = 4
    /\ parse_stack[2].leaves[1].symbol = sym_comment
    /\ parse_stack[2].leaves[3].symbol = sym_number
    /\ parse_stack[2].leaves[4].symbol = sym_keyword

(***************************************************************************)
(* C22: a failed scan ends the tokenization.  The step that records the    *)
(* error leaves the tokens as they were and moves to Done; once an error   *)
(* is recorded nothing more can happen, no token lies beyond the offset    *)
(* of the error, the end marker has not been emitted, and the tokens are   *)
(* those of the scans chained from offset 0 up to the failed one.          *)
(***************************************************************************)
Failed == error # <<>>

C22_StopOnError ==
    /\ [](Failed =>
            /\ pc = "Done"
            /\ ~ENABLED Next
            /\ \A i \in 1..Len(tokens) :
                /\ tokens[i].end <= error[1]
                /\ tokens[i].symbol # ts_builtin_sym_end
            /\ SpansOf(tokens) = SpansOf(Tokenize(input).tokens)
            /\ error = Tokenize(input).error)
    /\ [][(~Failed /\ Failed') =>
            /\ pc = "Returned" /\ ~result
            /\ tokens' = tokens
            /\ pc' = "Done"]_vars

\* a scan has failed after two tokens were emitted
C22_Witness ==
    /\ Failed
    /\ Len(tokens) = 2
    /\ error[1] > tokens[2].end

(***************************************************************************)
(* C23: the end marker.  A scan returns the end marker exactly when it     *)
(* has come to the end of the text, whitespace skipped; the end marker is  *)
(* emitted at most once, as the last token, with the length of the text    *)
(* as its offset, and a tokenization that ended without error has emitted  *)
(* it; nothing can happen after it.                                        *)
(***************************************************************************)
IsEndMarker(t) == t.symbol = ts_builtin_sym_end

C23_EndMarker ==
    /\ Returned =>
        ((result /\ result_symbol = ts_builtin_sym_end)
            <=> token_start = Len(input))
    /\ \A i \in 1..Len(tokens) :
        IsEndMarker(tokens[i]) =>
            /\ i = Len(tokens)
            /\ pc = "Done"
            /\ tokens[i].start = Len(input)
            /\ tokens[i].end = Len(input)
    /\ (pc = "Done" /\ error = <<>>) =>
        /\ tokens # <<>>
        /\ IsEndMarker(tokens[Len(tokens)])
        /\ ~ENABLED NextParse

\* the end marker has been emitted after three tokens and a skipped space
C23_Witness ==
    /\ pc = "Done"
    /\ Len(tokens) = 4
    /\ IsEndMarker(tokens[4])
    /\ tokens[4].scan_start < tokens[4].start

(***************************************************************************)
(* C24: termination.  The parser does not stop while a step is possible    *)
(* (weak fairness of its steps).  Then every tokenization comes to Done;   *)
(* every token that is consumed ends beyond the offset at which its scan   *)
(* started; and the number of characters left to scan never grows from     *)
(* one scan to the next.                                                   *)
(***************************************************************************)
\* an opener, a closer, a quote, the letter x and a space, the digit 1, a NUL
MaxTerminationFrags == 4

TerminationFragments ==
    { <<40, 42>>, <<42, 41>>, <<34>>, <<120, 32>>, <<49>>, <<0>> }

SpecParseFair ==
    /\ InitOver(TerminationFragments, MaxTerminationFrags)
    /\ [][NextParse]_vars
    /\ WF_vars(NextParse)

C24_Terminates ==
    /\ <>(pc = "Done")
    /\ [][(pc = "Returned" /\ pc' = "Scanning") =>
            /\ position' > scan_start
            /\ position' = token_end]_vars
    /\ [][(pc = "Returned" /\ pc' = "Done") =>
            (~result \/ result_symbol = ts_builtin_sym_end)]_vars

\* a tokenization that read an unclosed comment to the end of the text and
\* went back has come to Done
C24_Witness ==
    /\ pc = "Done"
    /\ error = <<>>
    /\ Len(tokens) >= 4
    /\ AtOpener(tokens[1].start)
    /\ tokens[1].symbol = sym_punctuation
    /\ position = Len(input)


(***************************************************************************)
(* C25: a scan that fails produces no token and advances nothing.  The     *)
(* scan returns false only when no ACCEPT_TOKEN ran, so no end was marked: *)
(* the token end is still the offset the scan started from, however far    *)
(* the scan read.  No step of the scan touches the token sequence, and the *)
(* step that follows the failure leaves the token sequence as it was and   *)
(* the cursor at the offset the scan started from.                         *)
(***************************************************************************)
FailedScan == pc = "Returned" /\ ~result

Rest(s, pos) == SubSeq(s, pos + 1, Len(s))

SameScan(a, b, shift) ==
    /\ a.result = b.result
    /\ a.start = b.start + shift
    /\ a.end = b.end + shift
    /\ a.result => a.symbol = b.symbol

ReturnedScan ==
    [result |-> result, symbol |-> result_symbol,
     start |-> token_start, end |-> token_end]

C26_PureScan ==
    /\ \A s \in 0..4 : ts_lex_modes(s).lex_state = 0
    /\ pc = "Returned" =>
        /\ SameScan(ReturnedScan, Scan(input, scan_start), 0)
        /\ SameScan(ReturnedScan, Scan(Rest(input, scan_start), 0), scan_start)

\* the third scan of a text, made in parse state 3, has returned a number
C26_Witness ==
    /\ pc = "Returned"
    /\ result
    /\ result_symbol = sym_number
    /\ TopState = 3
    /\ Len(tokens) >= 2
    /\ scan_start > 0


(***************************************************************************)
(* C27: the position the scanner reads from never moves backward across    *)
(* the scans of one text.  ReadsForward is that statement of the reading   *)
(* position.  What the scans keep: the offset a scan starts from never     *)
(* moves backward, and moves forward after each token; inside one scan     *)
(* the reading position only advances and is never before the start of the *)
(* scan; and the next scan starts at the end of the token accepted, which  *)
(* is before the reading position when the scan read past its last         *)
(* accepting state.                                                        *)
(***************************************************************************)
\* the steps after which scanning goes on
C27_ReadsForward == [][pc' # "Done" => position' >= position]_vars

ReadPastEnd == pc = "Returned" /\ result /\ position > token_end

C27_StartsForward ==
    /\ [](position >= scan_start /\ token_start >= scan_start)
    /\ [][scan_start' >= scan_start]_vars
    /\ [][pc = "Lexing" => position' >= position]_vars
    /\ [][(pc = "Returned" /\ pc' = "Scanning") =>
            /\ position' = token_end
            /\ position' > scan_start
            /\ position' <= position]_vars
    /\ [][pc = "Scanning" => scan_start' = position]_vars

\* the scan of an unclosed comment read to the end of the text and returned
\* the parenthesis; the next scan has started at the star
C27_Witness ==
    /\ pc = "Lexing"
    /\ Len(tokens) = 1
    /\ tokens[1].symbol = sym_punctuation
    /\ AtOpener(0)
    /\ Len(input) >= 4
    /\ scan_start = 1
    /\ position = 1


(***************************************************************************)
(* C28: a character that is not white space and begins no token makes the *)
(* scan fail.  White space is what the C locale calls white space: tab,    *)
(* newline, vertical tab, form feed, carriage return and space.  For every *)
(* other character that is not an ASCII letter, digit or underscore and    *)
(* not one of the 24 characters that begin a string, a comment, an         *)
(* operator or punctuation, state 0 has no transition; and a scan whose    *)
(* first character after the white space skipped is such a character       *)
(* returns false with no end marked, whatever follows it.                  *)
(***************************************************************************)
\* dot, semicolon, bang, dollar, at, NUL, SOH, DEL, backslash, e acute, the
\* letter a, space, newline, plus
MaxStrayFrags == 3

StrayFragments ==
    { <<46>>, <<59>>, <<33>>, <<36>>, <<64>>, <<0>>, <<1>>, <<127>>, <<92>>,
      <<233>>, <<97>>, <<32>>, <<10>>, <<43>> }

SpecStray == InitOver(StrayFragments, MaxStrayFrags) /\ [][Next]_vars

WhiteSpace == 9..13 \cup {32}

WordCharacters == (48..57) \cup (65..90) \cup {95} \cup (97..122)

\* " # ' ( ) , : [ ] { } & * + - / < = > ^ and the four signs beyond ASCII
TokenOpeners ==
    { 34, 35, 39, 40, 41, 44, 58, 91, 93, 123, 125, 38, 42, 43, 45, 47, 60, 61,
      62, 94, 172, 8800, 8804, 8805 }

\* the code points of one byte and those around the three comparison signs
CodePoints == (0..255) \cup (8795..8810)

BeginsNothing(c) == c \notin WhiteSpace \cup WordCharacters \cup TokenOpeners

NoTransition ==
    \A c \in CodePoints :
        BeginsNothing(c) =>
            /\ ts_lex(0, c, FALSE).op = "END_STATE"
            /\ ~ts_lex(0, c, FALSE).accepts

AtStray(a) == a < Len(input) /\ BeginsNothing(input[a + 1])

RECURSIVE RunEnd(_, _)
RunEnd(s, j) == IF j < Len(s) /\ IsWordChar(s[j + 1]) THEN RunEnd(s, j + 1) ELSE j

TwoPhase(s, pos) ==
    LET run_end == RunEnd(s, pos)
        run == SubSeq(s, pos + 1, run_end)
    IN  [result |-> TRUE,
         symbol |-> IF ToLower(run) \in Keywords THEN sym_keyword ELSE sym_identifier,
         start |-> pos,
         end |-> run_end]

WordOffsets(s) == { a \in 0..(Len(s) - 1) : IsWordStart(s[a + 1]) }

ScriptiInput == <<115, 99, 114, 105, 112, 116, 105>>

IfxInput == <<105, 102, 120>>

To2Input == <<116, 111, 50>>

KindAndEnd(s) == <<Scan(s, 0).result, Scan(s, 0).symbol, Scan(s, 0).end>>

C29_TwoPhase ==
    /\ Cardinality(Keywords) = 49
    /\ (pc = "Scanning" /\ tokens = <<>>) =>
        \A a \in WordOffsets(input) : Scan(input, a) = TwoPhase(input, a)
    /\ (Returned /\ AtWord(token_start)) =>
        ReturnedScan = TwoPhase(input, token_start)
    /\ (Returned /\ input = ScriptiInput) =>
        KindAndEnd(input) = <<TRUE, sym_identifier, 7>>
    /\ (Returned /\ input = IfxInput) =>
        KindAndEnd(input) = <<TRUE, sym_identifier, 3>>
    /\ (Returned /\ input = To2Input) =>
        KindAndEnd(input) = <<TRUE, sym_identifier, 3>>

\* the scan of scripti has returned an identifier of seven characters
C29_Witness ==
    /\ Returned
    /\ input = ScriptiInput
    /\ result
    /\ result_symbol = sym_identifier
    /\ token_end = 7


(***************************************************************************)
(* C30: the last accepting state decides.  Visits is the sequence of the   *)
(* states one call of ts_lex goes through, each with the offset it was     *)
(* entered at and with the kind it accepts if its case begins with         *)
(* ACCEPT_TOKEN.  The scan returns true exactly when one of them accepts;  *)
(* the kind and the end returned are those of the last one that accepts,   *)
(* the furthest offset read being that of the last state visited; and the  *)
(* next scan starts at the end returned.  An opener with no closer after   *)
(* it gives the parenthesis, the next scan starting at the star; 12.x      *)
(* gives the number 12, the next scan starting at the dot.                 *)
(***************************************************************************)
\* an opener, the digits 12, a dot, the letter x, a closer, a space, a quote
MaxBacktrackFrags == 4

BacktrackFragments ==
    { <<40, 42>>, <<49, 50>>, <<46>>, <<120>>, <<42, 41>>, <<32>>, <<34>> }

SpecBacktrack == InitOver(BacktrackFragments, MaxBacktrackFrags) /\ [][Next]_vars

RECURSIVE Visits(_, _, _)
Visits(s, st, pos) ==
    LET at_eof == pos >= Len(s)
        ahead == IF at_eof THEN 0 ELSE s[pos + 1]
        step == ts_lex(st, ahead, at_eof)
        here == [state |-> st, pos |-> pos, accepts |-> step.accepts,
                 symbol |-> step.symbol]
    IN  IF step.op = "END_STATE"
        THEN <<here>>
        ELSE <<here>> \o Visits(s, step.to, IF at_eof THEN pos ELSE pos + 1)

Accepting(path) == { i \in 1..Len(path) : path[i].accepts }

LastAccepting(path) ==
    CHOOSE i \in Accepting(path) : \A j \in Accepting(path) : j <= i

OpenCommentInput == <<40, 42>>

NumberDotInput == <<49, 50, 46, 120>>

C30_LastAccept ==
    /\ Returned =>
        LET path == Visits(input, ts_lex_modes(TopState).lex_state, scan_start)
        IN  /\ result <=> Accepting(path) # {}
            /\ position = path[Len(path)].pos
            /\ result =>
                /\ result_symbol = path[LastAccepting(path)].symbol
                /\ token_end = path[LastAccepting(path)].pos
                /\ token_end <= position
    /\ \A i \in 1..Len(tokens) :
        /\ i > 1 => tokens[i].scan_start = tokens[i - 1].end
        /\ (i = Len(tokens) /\ pc = "Scanning") => position = tokens[i].end
    /\ (ReturnedAtOpenComment /\ token_start = scan_start) =>
        /\ result_symbol = sym_punctuation
        /\ token_end = token_start + 1
        /\ position > token_end
    /\ (pc = "Done" /\ input = OpenCommentInput) =>
        /\ Spans = << <<sym_punctuation, 0, 1>>, <<sym_operator, 1, 2>>,
                      <<ts_builtin_sym_end, 2, 2>> >>
        /\ tokens[2].scan_start = 1
    /\ (pc = "Done" /\ input = NumberDotInput) =>
        /\ Spans = << <<sym_number, 0, 2>> >>
        /\ error = <<2>>
        /\ scan_start = 2

\* the scan of 12.x has read the dot and returned the number 12, and the
\* scan after it has started at the dot and failed there
C30_Witness ==
    /\ pc = "Done"
    /\ input = NumberDotInput
    /\ Len(tokens) = 1
    /\ scan_start = 2


(***************************************************************************)
(* C31: the star of the opener is not the star of the closer.  A comment   *)
(* token that begins with an open parenthesis has at least four            *)
(* characters, begins with the opener, ends with a closer, and no other    *)
(* closer begins in it at its third character or later; no comment is the  *)
(* three characters of an opener and a close parenthesis, and the text of  *)
(* just these three is tokenized as parenthesis, star, parenthesis.  The   *)
(* text of an opener and a closer is one comment of four characters.       *)
(***************************************************************************)
ShortInput == <<40, 42, 41>>

ShortestInput == <<40, 42, 42, 41>>

BlockCommentReturned ==
    /\ Returned /\ result /\ result_symbol = sym_comment
    /\ input[token_start + 1] = 40

C31_OwnStar ==
    /\ BlockCommentReturned =>
        /\ token_end - token_start >= 4
        /\ input[token_start + 2] = 42
        /\ input[token_end - 1] = 42
        /\ input[token_end] = 41
        /\ Closers(token_start) \cap token_start..(token_end - 3) = {}
        /\ token_end - 2 \in Closers(token_start)
    /\ (Returned /\ result /\ AtOpener(token_start) /\ Closers(token_start) = {}) =>
        result_symbol # sym_comment
    /\ (pc = "Done" /\ input = ShortInput) =>
        /\ error = <<>>
        /\ Spans = << <<sym_punctuation, 0, 1>>, <<sym_operator, 1, 2>>,
                      <<sym_punctuation, 2, 3>>, <<ts_builtin_sym_end, 3, 3>> >>
    /\ (pc = "Done" /\ input = ShortestInput) =>
        /\ error = <<>>
        /\ Spans = << <<sym_comment, 0, 4>>, <<ts_builtin_sym_end, 4, 4>> >>

\* the three characters of an opener and a close parenthesis have been
\* tokenized
C31_Witness ==
    /\ pc = "Done"
    /\ input = ShortInput
    /\ Len(tokens) = 4


(***************************************************************************)
(* C32: the hash.  A scan whose first character after the white space      *)
(* skipped is a hash not followed at once by an exclamation mark returns   *)
(* false, having read the hash and marked no end, and the tokenization     *)
(* ends with the error at the hash.  A hash and an exclamation mark with   *)
(* nothing after them are a complete comment of two characters.            *)
(***************************************************************************)
AtLoneHash(a) ==
    /\ a < Len(input)
    /\ input[a + 1] = 35
    /\ (a + 1 < Len(input) => input[a + 2] # 33)

AtBareShebang(a) ==
    /\ a + 2 = Len(input)
    /\ input[a + 1] = 35
    /\ input[a + 2] = 33

ShebangInput == <<35, 33>>

C32_Hash ==
    /\ (Returned /\ AtLoneHash(token_start)) =>
        /\ ~result
        /\ token_end = scan_start
        /\ position = token_start + 1
    /\ (pc = "Done" /\ AtLoneHash(token_start)) =>
        /\ error = <<token_start>>
        /\ \A i \in 1..Len(tokens) : tokens[i].end <= token_start
    /\ (Returned /\ AtBareShebang(token_start)) =>
        /\ result
        /\ result_symbol = sym_comment
        /\ token_end = token_start + 2
    /\ (pc = "Done" /\ input = ShebangInput) =>
        /\ error = <<>>
        /\ Spans = << <<sym_comment, 0, 2>>, <<ts_builtin_sym_end, 2, 2>> >>

\* after one token the scan has failed at a hash that a letter follows
C32_Witness ==
    /\ pc = "Done"
    /\ Len(tokens) = 1
    /\ error # <<>>
    /\ AtLoneHash(token_start)
    /\ token_start + 1 < Len(input)
    /\ input[token_start + 2] = 97


(***************************************************************************)
(* C33: a NUL inside a string or a comment.  States 2, 3, 4 and 8 take no  *)
(* transition on lookahead 0, be it the end of the text or a NUL in it.    *)
(* So no string token and no comment token holds a NUL; a scan that        *)
(* starts at a quote, an opener or two hyphens returns what it returns on  *)
(* the text cut off at the first NUL after its start; a quote with a NUL   *)
(* before the next quote fails, an opener with a NUL before the first      *)
(* closer gives the parenthesis, and a line comment with a NUL before the  *)
(* newline ends just before the NUL.                                       *)
(***************************************************************************)
\* a quote, an opener, a closer, two hyphens, the letter a, a NUL, a newline
MaxNulFrags == 4

NulFragments ==
    { <<34>>, <<40, 42>>, <<42, 41>>, <<45, 45>>, <<97>>, <<0>>, <<10>> }

SpecNul == InitOver(NulFragments, MaxNulFrags) /\ [][Next]_vars

BodyStates == {2, 3, 4, 8}

StopOnNul ==
    \A s \in BodyStates :
        /\ ts_lex(s, 0, FALSE).op = "END_STATE"
        /\ ts_lex(s, 0, FALSE) = ts_lex(s, 0, TRUE)

\* offset of the first NUL at or after offset a, or the length of the input
FirstNul(a) ==
    Min({ j \in a..(Len(input) - 1) : input[j + 1] = 0 } \cup {Len(input)})

CutAtNul(a) == SubSeq(input, 1, FirstNul(a))

AtBody(a) ==
    \/ a < Len(input) /\ input[a + 1] = 34
    \/ AtOpener(a)
    \/ AtLineOpener(a)

C33_NulEndsBody ==
    /\ (pc = "Scanning" /\ tokens = <<>>) => StopOnNul
    /\ (Returned /\ result /\ result_symbol \in {sym_string, sym_comment}) =>
        \A j \in token_start..(token_end - 1) : input[j + 1] # 0
    /\ (Returned /\ AtBody(token_start)) =>
        SameScan(ReturnedScan, Scan(CutAtNul(token_start), scan_start), 0)
    /\ (Returned /\ token_start < Len(input) /\ input[token_start + 1] = 34
            /\ FirstNul(token_start) < Len(input)
            /\ \A j \in LaterQuotes(token_start) : FirstNul(token_start) < j) =>
        /\ ~result
        /\ position = FirstNul(token_start)
    /\ (Returned /\ AtOpener(token_start)
            /\ \A j \in Closers(token_start) : FirstNul(token_start) < j
            /\ FirstNul(token_start) < Len(input)) =>
        /\ result
        /\ result_symbol = sym_punctuation
        /\ token_end = token_start + 1
        /\ position = FirstNul(token_start)
    /\ (Returned /\ AtLineOpener(token_start)
            /\ FirstNul(token_start) < LineStop(token_start, {10})) =>
        /\ result
        /\ result_symbol = sym_comment
        /\ token_end = FirstNul(token_start)

\* an opener, a NUL and a closer: the scan has stopped at the NUL and
\* returned the parenthesis
C33_Witness ==
    /\ Returned
    /\ input = <<40, 42, 0, 42, 41>>
    /\ token_start = 0
    /\ result_symbol = sym_punctuation
    /\ position = 2


(***************************************************************************)
(* C34: one call of ts_lex terminates.  With lookahead 0 every state but   *)
(* state 0 stops, and state 0 at the end of the text moves to state 6,     *)
(* which stops; a NUL in the text stops state 0 too.  Every other          *)
(* transition consumes one character.  So a call that has started          *)
(* returns, and the number of its transitions is at most the length of     *)
(* the text left at its start plus one.                                    *)
(***************************************************************************)
StopsOnZero ==
    /\ \A s \in LexStates \ {0} :
        /\ ts_lex(s, 0, TRUE).op = "END_STATE"
        /\ ts_lex(s, 0, FALSE).op = "END_STATE"
    /\ ts_lex(0, 0, TRUE) = ADVANCE(6)
    /\ ts_lex(0, 0, FALSE).op = "END_STATE"

Transitions(s, pos) == Len(Visits(s, 0, pos)) - 1

LexStepConsumes ==
    \/ /\ ~Eof
       /\ position' = position + 1
    \/ /\ Eof
       /\ state = 0
       /\ state' = 6
       /\ position' = position

C34_CallTerminates ==
    /\ []((pc = "Scanning" /\ tokens = <<>>) => StopsOnZero)
    /\ [](pc = "Lexing" => position <= Len(input) /\ state \in LexStates)
    /\ [](Returned =>
            /\ Transitions(input, scan_start) <= Len(input) - scan_start + 1
            /\ position - scan_start <= Transitions(input, scan_start))
    /\ [][(pc = "Lexing" /\ pc' = "Lexing") => LexStepConsumes]_vars
    /\ (pc = "Lexing") ~> (pc = "Returned")

\* a scan that skipped the white space left and met the end of the text
\* has returned after as many transitions as the bound allows
C34_Witness ==
    /\ Returned
    /\ result
    /\ result_symbol = ts_builtin_sym_end
    /\ scan_start < Len(input)
    /\ Len(tokens) >= 1
    /\ Transitions(input, scan_start) = Len(input) - scan_start + 1

=============================================================================
